---- MODULE Spec2Model ----
(***************************************************************************)
(* Model of the product comparison endpoint                                *)
(* (app/api/compare-products/route.ts): the POST handler, the per-product  *)
(* aggregator, the fallback data generator, the merge engine and the two   *)
(* text generators with their fallback templates.                          *)
(*                                                                         *)
(* Strings are sequences of atoms (TLA+ strings): a literal of the source   *)
(* or a product name is a one-atom sequence, template strings are          *)
(* concatenations, the empty string is << >>.  Spelling gives the          *)
(* characters of a name, on which toLowerCase and includes are computed.   *)
(***************************************************************************)
EXTENDS Integers, Sequences, FiniteSets, TLC

VARIABLES env, rng, req, pc, scrapers, cur, idx, results, product1Data,
          product2Data, comparison, readme, logs, response, calls

\* positions, in the entries held by the module's logger, of the entries that
\* POST calls other than the one followed appended
VARIABLE foreign

\* the page of the browser (ProductComparisonAgent): its React state, the
\* position of startComparison (startPc), the isRunning and currentStep its
\* callbacks closed over (closure), its interval and its timeout, the status
\* requests in flight, how many the interval has sent (ticks), and whether
\* the server has finished the run (serverDone)
VARIABLES isRunning, currentStep, sessions, comparisonResult, startPc, closure,
          pollInterval, timer, inflight, ticks, serverDone

clientVars == <<isRunning, currentStep, sessions, comparisonResult, startPc, closure,
                pollInterval, timer, inflight, ticks, serverDone>>

\* the session manager of the server (SessionManager): its map of sessions,
\* the clock in ticks (now), the tick at which its cleanup interval fires
\* next (nextSweep), and its last call with what it returned (lastCall)
VARIABLES sessionMap, now, nextSweep, lastCall

\* what the handler of the followed request leaves alone
outside == <<foreign, clientVars, sessionMap, now, nextSweep, lastCall>>

vars == <<env, rng, req, pc, scrapers, cur, idx, results, product1Data,
          product2Data, comparison, readme, logs, response, calls, outside>>

----------------------------------------------------------------------------
(* Bounds of the model *)

\* longest methods array of a request
MaxMethods == 2

\* longest list of partial records handed to mergeProductData on its own
MaxLen == 3

----------------------------------------------------------------------------
(* Strings *)

EmptyText == << >>

Lit(s) == <<s>>

\* a || b on strings: the empty string is falsy
OrElse(a, b) == IF a # EmptyText THEN a ELSE b

UpperChars == <<"A","B","C","D","E","F","G","H","I","J","K","L","M",
                "N","O","P","Q","R","S","T","U","V","W","X","Y","Z">>

LowerChars == <<"a","b","c","d","e","f","g","h","i","j","k","l","m",
                "n","o","p","q","r","s","t","u","v","w","x","y","z">>

ToLowerChar(c) ==
  IF \E i \in 1..Len(UpperChars) : UpperChars[i] = c
  THEN LowerChars[CHOOSE i \in 1..Len(UpperChars) : UpperChars[i] = c]
  ELSE c

\* String.prototype.toLowerCase
toLowerCase(t) == [i \in 1..Len(t) |-> ToLowerChar(t[i])]

\* String.prototype.includes
includes(t, needle) ==
  \E i \in 0..(Len(t) - Len(needle)) : SubSeq(t, i + 1, i + Len(needle)) = needle

WhiteSpace == {" ", "\t", "\n"}

RECURSIVE trimStart(_)
trimStart(t) ==
  IF t # EmptyText /\ Head(t) \in WhiteSpace THEN trimStart(Tail(t)) ELSE t

RECURSIVE trimEnd(_)
trimEnd(t) ==
  IF t # EmptyText /\ t[Len(t)] \in WhiteSpace
  THEN trimEnd(SubSeq(t, 1, Len(t) - 1)) ELSE t

\* String.prototype.trim
trim(t) == trimEnd(trimStart(t))

\* Array.prototype.join on an array of strings
RECURSIVE join(_, _)
join(ts, sep) ==
  IF ts = << >> THEN EmptyText
  ELSE IF Len(ts) = 1 THEN ts[1]
  ELSE ts[1] \o sep \o join(Tail(ts), sep)

\* [...new Set(arr)]: first occurrences, in order
RECURSIVE Dedupe(_)
Dedupe(s) ==
  IF s = << >> THEN << >>
  ELSE LET front == Dedupe(SubSeq(s, 1, Len(s) - 1))
           last  == s[Len(s)]
       IN IF \E i \in 1..Len(front) : front[i] = last
          THEN front ELSE Append(front, last)

Range(s) == {s[i] : i \in 1..Len(s)}

----------------------------------------------------------------------------
(* Objects: a product record is a function from the fields it has to their *)
(* values; a field the object lacks reads as undefined.  A specifications  *)
(* object is the sequence of its entries in insertion order.               *)

Has(o, f) == f \in DOMAIN o

\* value of a string-valued property in a boolean context and under ||
StrOf(o, f) == IF Has(o, f) THEN o[f] ELSE EmptyText

HasKey(specs, k) == \E i \in 1..Len(specs) : specs[i].key = k

ValueOf(specs, k) == specs[CHOOSE i \in 1..Len(specs) : specs[i].key = k].value

Keys(specs) == {specs[i].key : i \in 1..Len(specs)}

\* { ...acc, [e.key]: e.value }
SetEntry(acc, e) ==
  IF HasKey(acc, e.key)
  THEN [i \in 1..Len(acc) |-> IF acc[i].key = e.key THEN e ELSE acc[i]]
  ELSE Append(acc, e)

\* { ...a, ...b }
RECURSIVE Spread(_, _)
Spread(a, b) ==
  IF b = << >> THEN a ELSE Spread(SetEntry(a, Head(b)), Tail(b))

----------------------------------------------------------------------------
(* Fallback Data Generator *)

\* Math.random() is a pseudo-random generator: the values it returns, in
\* thousandths, are the elements of a cyclic stream read from a position
\* (rng) that the start of the process seeds
RandomStream == <<0, 999, 500>>

Seeds == {1, 2}

\* the value of the k-th call from position r, and the position after n calls
Draw(r, k) == RandomStream[((r + k - 2) % Len(RandomStream)) + 1]

Advance(r, n) == ((r + n - 1) % Len(RandomStream)) + 1

\* `$${Math.floor(r * range + base)}.99`
PriceText(r, range, base) ==
  <<"$", ToString(base + ((r * range) \div 1000)), ".99">>

\* `${(r * 1.5 + 3.5).toFixed(1)}/5 (estimated)`
RatingText(r) ==
  LET tenths == (35000 + 15 * r + 500) \div 1000
  IN <<ToString(tenths \div 10), ".", ToString(tenths % 10), "/5 (estimated)">>

Name_iPhone   == "iPhone 15 Pro"
Name_Galaxy   == "Samsung Galaxy S24 Ultra"
Name_ThinkPad == "ThinkPad X1"
Name_Desk     == "Desk Lamp"
Name_MacBook    == "MacBook Air"
Name_Laptop     == "Gaming laptop"
Name_Headphones == "HEADPHONES Max"
Name_GalaxyBook == "Galaxy Book Laptop"

\* the characters of an atom that occurs in a product name
Spelling(atom) ==
  CASE atom = Name_iPhone   -> <<"i","P","h","o","n","e"," ","1","5"," ","P","r","o">>
    [] atom = Name_Galaxy   -> <<"S","a","m","s","u","n","g"," ","G","a","l","a","x","y",
                                 " ","S","2","4"," ","U","l","t","r","a">>
    [] atom = Name_ThinkPad -> <<"T","h","i","n","k","P","a","d"," ","X","1">>
    [] atom = Name_Desk     -> <<"D","e","s","k"," ","L","a","m","p">>
    [] atom = Name_MacBook  -> <<"M","a","c","B","o","o","k"," ","A","i","r">>
    [] atom = Name_Laptop   -> <<"G","a","m","i","n","g"," ","l","a","p","t","o","p">>
    [] atom = Name_Headphones ->
         <<"H","E","A","D","P","H","O","N","E","S"," ","M","a","x">>
    [] atom = Name_GalaxyBook ->
         <<"G","a","l","a","x","y"," ","B","o","o","k"," ","L","a","p","t","o","p">>

\* the characters of a string
RECURSIVE Chars(_)
Chars(t) == IF t = EmptyText THEN << >> ELSE Spelling(Head(t)) \o Chars(Tail(t))

Kw_phone    == <<"p","h","o","n","e">>
Kw_iphone   == <<"i","p","h","o","n","e">>
Kw_galaxy   == <<"g","a","l","a","x","y">>
Kw_laptop   == <<"l","a","p","t","o","p">>
Kw_macbook  == <<"m","a","c","b","o","o","k">>
Kw_thinkpad == <<"t","h","i","n","k","p","a","d">>

\* the phone test without its "galaxy" keyword
isPhone_NoGalaxy(productName) ==
  \/ includes(toLowerCase(Chars(productName)), Kw_phone)
  \/ includes(toLowerCase(Chars(productName)), Kw_iphone)

isPhone(productName) ==
  \/ includes(toLowerCase(Chars(productName)), Kw_phone)
  \/ includes(toLowerCase(Chars(productName)), Kw_iphone)
  \/ includes(toLowerCase(Chars(productName)), Kw_galaxy)

isLaptop(productName) ==
  \/ includes(toLowerCase(Chars(productName)), Kw_laptop)
  \/ includes(toLowerCase(Chars(productName)), Kw_macbook)
  \/ includes(toLowerCase(Chars(productName)), Kw_thinkpad)

PhoneFeatures ==
  << Lit("Advanced smartphone capabilities"),
     Lit("High-quality camera system"),
     Lit("5G wireless connectivity"),
     Lit("Premium touchscreen interface"),
     Lit("Comprehensive app ecosystem") >>

LaptopFeatures ==
  << Lit("High-performance computing"),
     Lit("Portable design"),
     Lit("Long battery life"),
     Lit("Professional-grade display"),
     Lit("Advanced connectivity options") >>

GenericFeatures ==
  << Lit("Quality product features"),
     Lit("Reliable performance"),
     Lit("User-friendly design"),
     Lit("Good value proposition") >>

Entry(k, v) == [key |-> k, value |-> v]

\* rPrice, rRating: the two Math.random() draws of the branch taken
createIntelligentFallback(productName, rPrice, rRating) ==
  IF isPhone(productName) THEN
    [ name |-> productName,
      price |-> PriceText(rPrice, 800, 400),
      rating |-> RatingText(rRating),
      features |-> PhoneFeatures,
      availability |-> Lit("Available at major retailers"),
      specifications |->
        << Entry("Type", Lit("Smartphone")),
           Entry("Category", Lit("Mobile Device")),
           Entry("Screen Size", Lit("6.1-6.8 inches")),
           Entry("Storage", Lit("128GB-1TB options")),
           Entry("Data Source", Lit("Intelligent estimation")) >>,
      description |-> productName \o
        Lit(" - Advanced smartphone with intelligent analysis when direct scraping is unavailable.") ]
  ELSE IF isLaptop(productName) THEN
    [ name |-> productName,
      price |-> PriceText(rPrice, 1500, 500),
      rating |-> RatingText(rRating),
      features |-> LaptopFeatures,
      availability |-> Lit("Available at major retailers"),
      specifications |->
        << Entry("Type", Lit("Laptop Computer")),
           Entry("Category", Lit("Computing Device")),
           Entry("Screen Size", Lit("13-16 inches")),
           Entry("Processor", Lit("Latest generation")),
           Entry("Data Source", Lit("Intelligent estimation")) >>,
      description |-> productName \o
        Lit(" - Professional laptop with intelligent analysis when direct scraping is unavailable.") ]
  ELSE
    [ name |-> productName,
      price |-> PriceText(rPrice, 500, 100),
      rating |-> RatingText(rRating),
      features |-> GenericFeatures,
      availability |-> Lit("Check retailer availability"),
      specifications |->
        << Entry("Product", productName),
           Entry("Category", Lit("Consumer Product")),
           Entry("Data Source", Lit("Intelligent estimation")) >>,
      description |-> productName \o
        Lit(" - Quality product with intelligent analysis when direct scraping is unavailable.") ]

----------------------------------------------------------------------------
(* Source Merge Engine *)

ScalarFields == {"price", "rating", "description", "availability"}

\* the assignment without its !merged.f guard: the last non-empty value wins
KeepFirst_LastWins(merged, result, f) ==
  IF StrOf(result, f) # EmptyText THEN result[f] ELSE merged[f]

\* if (result.f && !merged.f) merged.f = result.f
KeepFirst(merged, result, f) ==
  IF StrOf(result, f) # EmptyText /\ merged[f] = EmptyText
  THEN result[f] ELSE merged[f]

\* the concatenation without the Set
UnionInto_Concat(merged, result, f) ==
  IF Has(result, f) THEN merged[f] \o result[f] ELSE merged[f]

\* if (result.f) merged.f = [...new Set([...merged.f, ...result.f])]
UnionInto(merged, result, f) ==
  IF Has(result, f) THEN Dedupe(merged[f] \o result[f]) ELSE merged[f]

\* the spread with its operands exchanged: the earlier value of a key wins
OverlaySpecs_EarlierWins(merged, result) ==
  IF Has(result, "specifications")
  THEN Spread(result.specifications, merged.specifications)
  ELSE merged.specifications

\* if (result.specifications) merged.specifications = { ...merged.specifications, ...result.specifications }
OverlaySpecs(merged, result) ==
  IF Has(result, "specifications")
  THEN Spread(merged.specifications, result.specifications)
  ELSE merged.specifications

\* one iteration of the loop of mergeProductData
MergeOne(merged, result) ==
  [ name |-> merged.name,
    price |-> KeepFirst(merged, result, "price"),
    rating |-> KeepFirst(merged, result, "rating"),
    features |-> UnionInto(merged, result, "features"),
    description |-> KeepFirst(merged, result, "description"),
    availability |-> KeepFirst(merged, result, "availability"),
    images |-> UnionInto(merged, result, "images"),
    specifications |-> OverlaySpecs(merged, result) ]

RECURSIVE MergeLoop(_, _)
MergeLoop(merged, rs) ==
  IF rs = << >> THEN merged ELSE MergeLoop(MergeOne(merged, Head(rs)), Tail(rs))

mergeProductData(rs, productName) ==
  MergeLoop([ name |-> productName,
              price |-> EmptyText,
              rating |-> EmptyText,
              features |-> << >>,
              description |-> EmptyText,
              availability |-> EmptyText,
              images |-> << >>,
              specifications |-> << >> ], rs)

----------------------------------------------------------------------------
(* Fallback templates of the Comparison and Document Generators *)

\* ${p.name}
NameOf(p) == IF Has(p, "name") THEN p.name ELSE Lit("undefined")

\* the feature list without its || "- Features not available"
FeatureLines_NoPlaceholder(p) ==
  IF Has(p, "features")
  THEN join([i \in 1..Len(p.features) |-> Lit("- ") \o p.features[i]], Lit("\n"))
  ELSE EmptyText

\* p.features?.map((feature) => `- ${feature}`).join("\n") || "- Features not available"
FeatureLines(p) ==
  OrElse(IF Has(p, "features")
         THEN join([i \in 1..Len(p.features) |-> Lit("- ") \o p.features[i]], Lit("\n"))
         ELSE EmptyText,
         Lit("- Features not available"))

\* Object.entries(p.specifications || {}).map(([key, value]) => `- **${key}**: ${value}`).join("\n")
\*   || "- Specifications not available"
SpecLines(p) ==
  LET specs == IF Has(p, "specifications") THEN p.specifications ELSE << >>
  IN OrElse(join([i \in 1..Len(specs) |->
                    <<"- **", specs[i].key, "**: ">> \o specs[i].value], Lit("\n")),
            Lit("- Specifications not available"))

generateIntelligentFallbackComparison(p1, p2) ==
  Lit("# Product Comparison Analysis\n\n## ") \o NameOf(p1) \o Lit(" vs ") \o NameOf(p2)
  \o Lit("\n\n### Price Comparison\n- **") \o NameOf(p1) \o Lit("**: ")
  \o OrElse(StrOf(p1, "price"), Lit("Price not available"))
  \o Lit("\n- **") \o NameOf(p2) \o Lit("**: ")
  \o OrElse(StrOf(p2, "price"), Lit("Price not available"))
  \o Lit("\n\n### Key Features Analysis\n\n#### ") \o NameOf(p1) \o Lit(" Features:\n")
  \o FeatureLines(p1)
  \o Lit("\n\n#### ") \o NameOf(p2) \o Lit(" Features:\n")
  \o FeatureLines(p2)
  \o Lit("\n\n### Specifications Comparison\n\n#### ") \o NameOf(p1) \o Lit(":\n")
  \o SpecLines(p1)
  \o Lit("\n\n#### ") \o NameOf(p2) \o Lit(":\n")
  \o SpecLines(p2)
  \o Lit("\n\n### Availability\n- **") \o NameOf(p1) \o Lit("**: ")
  \o OrElse(StrOf(p1, "availability"), Lit("Availability unknown"))
  \o Lit("\n- **") \o NameOf(p2) \o Lit("**: ")
  \o OrElse(StrOf(p2, "availability"), Lit("Availability unknown"))
  \o Lit("\n\n### Recommendation\nBased on the available data, both products offer unique advantages. Consider your specific needs, budget, and feature requirements when making a decision.\n\n*Note: This comparison was generated using intelligent fallback analysis due to API limitations. For the most accurate and detailed comparison, please ensure your OpenAI API key is properly configured.*")

\* the three "- **Price**/**Rating**/**Availability**" lines of one product
ReadmeSpecLines(p) ==
  Lit("- **Price**: ") \o OrElse(StrOf(p, "price"), Lit("Not available"))
  \o Lit("\n- **Rating**: ") \o OrElse(StrOf(p, "rating"), Lit("Not available"))
  \o Lit("\n- **Availability**: ") \o OrElse(StrOf(p, "availability"), Lit("Not available"))

generateIntelligentFallbackReadme(p1, p2, comparisonText) ==
  Lit("# Product Comparison: ") \o NameOf(p1) \o Lit(" vs ") \o NameOf(p2)
  \o Lit("\n\n## Overview\nThis document provides a comprehensive comparison between ")
  \o NameOf(p1) \o Lit(" and ") \o NameOf(p2)
  \o Lit(", analyzing their features, specifications, pricing, and overall value proposition.\n\n## Product Specifications\n\n### ")
  \o NameOf(p1) \o Lit("\n") \o ReadmeSpecLines(p1)
  \o Lit("\n\n### ") \o NameOf(p2) \o Lit("\n") \o ReadmeSpecLines(p2)
  \o Lit("\n\n## Feature Comparison\n\n### ") \o NameOf(p1) \o Lit(" Features\n")
  \o FeatureLines(p1)
  \o Lit("\n\n### ") \o NameOf(p2) \o Lit(" Features\n")
  \o FeatureLines(p2)
  \o Lit("\n\n## Detailed Analysis\n\n") \o comparisonText
  \o Lit("\n\n## Conclusion and Recommendations\n\nBoth products have their unique strengths and target different user needs. Consider the following factors when making your decision:\n\n1. **Budget**: Compare the pricing and value proposition\n2. **Features**: Identify which features are most important to you\n3. **Availability**: Check current stock and shipping options\n4. **Reviews**: Consider user ratings and feedback\n\n## Data Sources and Methodology\n\nThis comparison was generated using:\n- Multi-source data aggregation\n- Intelligent browser automation\n- AI-powered analysis and comparison\n- Real-time product information gathering\n\n*Note: This README was generated using intelligent fallback analysis. For enhanced AI-powered insights, please ensure your OpenAI API key is properly configured.*\n\n---\n\nGenerated by AI Product Comparison Agent")

----------------------------------------------------------------------------
(* Inputs the model draws *)

SeqsUpTo(S, n) == UNION {[1..k -> S] : k \in 0..n}

\* product names of a request: a phone-like and a generic one
ProductNames == {Lit(Name_iPhone), Lit(Name_Desk)}

\* product names given to the pure functions
AllNames == {Lit(Name_iPhone), Lit(Name_ThinkPad), Lit(Name_Desk)}

\* identifiers a request may carry in methods; "selenium" is not recognized
MethodIds == {"scrapybara", "playwright", "puppeteer", "selenium"}

MethodLists == SeqsUpTo(MethodIds, MaxMethods)

\* parsed JSON bodies: every field may be missing, a name may be ""
Bodies ==
  {[product1 |-> a, product2 |-> b, methods |-> m] :
      a \in ProductNames \cup {EmptyText}, b \in ProductNames \cup {EmptyText},
      m \in MethodLists}
  \cup {[product1 |-> a, product2 |-> b] : a \in ProductNames, b \in ProductNames}
  \cup {[product2 |-> b, methods |-> m] : b \in ProductNames, m \in MethodLists}
  \cup {[product1 |-> a, methods |-> m] : a \in ProductNames, m \in MethodLists}

\* a request whose body request.json() parses, or one it rejects
Requests ==
  {[parsable |-> TRUE, body |-> b] : b \in Bodies}
  \cup {[parsable |-> FALSE, body |-> << >>]}

NoRequest == [parsable |-> FALSE, body |-> << >>]

Placeholder == Lit("your_openai_api_key_here")

\* process.env: OPENAI_API_KEY unset, "", blank, the placeholder, or a key
Environments ==
  { << >> }
  \cup {[OPENAI_API_KEY |-> k] :
          k \in {EmptyText, <<" ", " ">>, Placeholder, Lit("sk-proj-0123")}}

Feature1 == Lit("Wireless charging")
Feature2 == Lit("Water resistant")
Feature3 == Lit("Fast charging")
Image1 == Lit("https://img.example/1.png")
Image2 == Lit("https://img.example/2.png")

\* a partial record: empty price and availability, no rating, no description,
\* a feature listed twice, a name of its own
RecordA ==
  [ name |-> Lit("Store listing title"),
    price |-> EmptyText,
    availability |-> EmptyText,
    features |-> <<Feature1, Feature2, Feature1>>,
    images |-> <<Image1>>,
    specifications |-> <<Entry("Color", Lit("Red"))>> ]

RecordB ==
  [ price |-> Lit("$10"),
    rating |-> Lit("4.5/5"),
    description |-> Lit("Listed description"),
    availability |-> Lit("In stock"),
    features |-> <<Feature2, Feature3>>,
    images |-> <<Image1, Image2>>,
    specifications |-> <<Entry("Color", Lit("Blue")), Entry("Size", Lit("M"))>> ]

\* a record without features, images
RecordC ==
  [ price |-> Lit("$20"),
    rating |-> Lit("3.9/5"),
    description |-> Lit("Another description"),
    specifications |-> <<Entry("Size", Lit("L")), Entry("Weight", Lit("1kg"))>> ]

\* a record with a price only, an empty features array and an image twice
RecordD ==
  [ price |-> Lit("$30"),
    features |-> << >>,
    images |-> <<Image2, Image2>> ]

\* the record a source returns in the handler: it tells its source
SourceRecord(cls) ==
  [ name |-> Lit("Store listing title"),
    price |-> Lit("$10"),
    rating |-> Lit("4.5/5"),
    description |-> Lit("Listed description"),
    availability |-> Lit("In stock"),
    features |-> <<Feature2, Lit("Found by ") \o Lit(cls)>>,
    images |-> <<Image1>>,
    specifications |-> <<Entry("Source", Lit(cls)), Entry("Color", Lit("Blue"))>> ]

SourceRecords(cls) == {SourceRecord(cls)}

ErrorThrown(msg) == [isError |-> TRUE, message |-> msg]

NonErrorThrown == [isError |-> FALSE, message |-> EmptyText]

\* error instanceof Error ? error.message : "Unknown error"
ErrorMessage(e) == IF e.isError THEN e.message ELSE Lit("Unknown error")

ScrapeErrors == {ErrorThrown(Lit("Navigation timeout"))}

LLMErrors == {ErrorThrown(Lit("Incorrect API key provided"))}

LLMTexts == {Lit("## Model written text")}

----------------------------------------------------------------------------
(* Logger: entries are appended to logs; getLogs returns them *)

NoContext == << >>

LogEntry(level, message, context) ==
  [level |-> level, message |-> message, context |-> context]

info(l, message, context) == Append(l, LogEntry("info", message, context))

warn(l, message, context) == Append(l, LogEntry("warn", message, context))

error(l, message, context) == Append(l, LogEntry("error", message, context))

getLogs(l) == l

----------------------------------------------------------------------------
(* Responses *)

JsonResponse(status, body) == [status |-> status, body |-> body]

NoResponse == [status |-> 0, body |-> << >>]

SetupSteps ==
  join(<< Lit("1. Go to https://platform.openai.com/api-keys"),
          Lit("2. Create a new API key"),
          Lit("3. Copy the key to your .env file: OPENAI_API_KEY=sk-proj-your-new-key"),
          Lit("4. Restart the development server") >>, Lit("\n"))

NamesRequired ==
  JsonResponse(400, [error |-> Lit("Both product names are required")])

KeyNotConfigured ==
  JsonResponse(500, [error |-> Lit("OpenAI API key not configured"),
                     details |-> Lit("Please add a valid OPENAI_API_KEY to your .env file"),
                     setup |-> SetupSteps])

NoValidMethods ==
  JsonResponse(400, [error |-> Lit("No valid scraping methods selected")])

\* a catch block that reads the logs before it logs the error
CaughtResponse_LogsReadFirst(l, e) ==
  JsonResponse(500,
    [error |-> Lit("Failed to compare products. Please check your configuration and try again."),
     details |-> ErrorMessage(e),
     logs |-> SubSeq(l, 1, Len(l) - 1)])

\* the catch block of POST: logs l, error e
CaughtResponse(l, e) ==
  JsonResponse(500,
    [error |-> Lit("Failed to compare products. Please check your configuration and try again."),
     details |-> ErrorMessage(e),
     logs |-> getLogs(l)])

----------------------------------------------------------------------------
(* The page before the first click: the useState initial values, no        *)
(* interval, no timeout, no request                                        *)

NoResult == "null"

PageLoaded ==
  /\ isRunning = FALSE
  /\ currentStep = ""
  /\ sessions = << >>
  /\ comparisonResult = NoResult
  /\ startPc = "ready"
  /\ closure = [isRunning |-> FALSE, currentStep |-> ""]
  /\ pollInterval = FALSE
  /\ timer = FALSE
  /\ inflight = << >>
  /\ ticks = 0
  /\ serverDone = FALSE

----------------------------------------------------------------------------
(* The session manager once its constructor has run on the server: an      *)
(* empty map and the cleanup interval set.  A tick is ten minutes.         *)

\* 30 * 60 * 1000 ms, in ticks: the age limit of the sweep and the period of
\* its interval
ThirtyMinutes == 3

ManagerBuilt ==
  /\ sessionMap = << >>
  /\ now = 0
  /\ nextSweep = ThirtyMinutes
  /\ lastCall = [op |-> "new"]

----------------------------------------------------------------------------
(* Request Orchestrator: POST up to its first source fetch *)

\* a check that only sees a missing field: !product taken as product === undefined
Falsy_OnlyMissing(body, f) == ~Has(body, f)

\* !product : the field is missing or the empty string
Falsy(body, f) == ~Has(body, f) \/ body[f] = EmptyText

\* the check without key.trim() === ""
KeyInvalid_NoTrim(e) ==
  \/ ~Has(e, "OPENAI_API_KEY")
  \/ e.OPENAI_API_KEY = EmptyText
  \/ e.OPENAI_API_KEY = Placeholder

\* !key || key.trim() === "" || key === "your_openai_api_key_here"
KeyInvalid(e) ==
  \/ ~Has(e, "OPENAI_API_KEY")
  \/ e.OPENAI_API_KEY = EmptyText
  \/ trim(e.OPENAI_API_KEY) = EmptyText
  \/ e.OPENAI_API_KEY = Placeholder

\* Array.prototype.includes
ArrayIncludes(arr, x) == \E i \in 1..Len(arr) : arr[i] = x

RecognizedIds == {"scrapybara", "playwright", "puppeteer"}

ClassOf(id) ==
  CASE id = "scrapybara" -> "ScrapybaraBrowser"
    [] id = "playwright" -> "PlaywrightScraper"
    [] id = "puppeteer"  -> "PuppeteerScraper"

IsRecognized(id) == id \in RecognizedIds

\* scrapers built by walking methods: one per recognized identifier, in the
\* order of the request
SelectScrapers_InRequestOrder(methods) ==
  LET ids == Dedupe(SelectSeq(methods, IsRecognized))
  IN [i \in 1..Len(ids) |-> ClassOf(ids[i])]

ScraperClasses == {"ScrapybaraBrowser", "PlaywrightScraper", "PuppeteerScraper"}

\* a selection that gives up on a methods array holding an identifier it
\* does not know
SelectScrapers_StrictIds(methods) ==
  IF \E i \in 1..Len(methods) : ~IsRecognized(methods[i])
  THEN << >>
  ELSE (IF ArrayIncludes(methods, "scrapybara") THEN <<"ScrapybaraBrowser">> ELSE << >>)
       \o (IF ArrayIncludes(methods, "playwright") THEN <<"PlaywrightScraper">> ELSE << >>)
       \o (IF ArrayIncludes(methods, "puppeteer") THEN <<"PuppeteerScraper">> ELSE << >>)

\* the scrapers array, by constructor name
SelectScrapers(methods) ==
  (IF ArrayIncludes(methods, "scrapybara") THEN <<"ScrapybaraBrowser">> ELSE << >>)
  \o (IF ArrayIncludes(methods, "playwright") THEN <<"PlaywrightScraper">> ELSE << >>)
  \o (IF ArrayIncludes(methods, "puppeteer") THEN <<"PuppeteerScraper">> ELSE << >>)

\* { product1, product2, methods } of the first log entry
StartContext(body) ==
  [k \in {"product1", "product2"} \cup ({"methods"} \cap DOMAIN body) |-> body[k]]

ScrapeCall(cls, productName) ==
  [kind |-> "scrapeProduct", target |-> cls, arg |-> productName]

GenerateCall(what, prompt) ==
  [kind |-> "generateText", target |-> what, arg |-> prompt]

\* logger.info(`Starting intelligent ${scraper.constructor.name} for ${productName}`)
BeginFetch(l, cls, productName) ==
  info(l, Lit("Starting intelligent ") \o Lit(cls) \o Lit(" for ") \o productName, NoContext)

ProductName(k) == IF k = 1 THEN req.body.product1 ELSE req.body.product2

NoRecord == << >>

Init ==
  /\ env \in Environments
  /\ rng \in Seeds
  /\ req = NoRequest
  /\ pc = "idle"
  /\ scrapers = << >>
  /\ cur = 1
  /\ idx = 1
  /\ results = << << >>, << >> >>
  /\ product1Data = NoRecord
  /\ product2Data = NoRecord
  /\ comparison = EmptyText
  /\ readme = EmptyText
  /\ logs = << >>
  /\ response = NoResponse
  /\ calls = << >>
  /\ foreign = {}
  /\ PageLoaded
  /\ ManagerBuilt

\* a handler that logs every response it gives before any fetch
Respond_Logged(r, l) ==
  /\ pc' = "done"
  /\ response' = r
  /\ logs' = info(l, Lit("Request ended"), [status |-> r.status])
  /\ UNCHANGED <<outside, rng, scrapers, cur, idx, results, product1Data, product2Data,
                 comparison, readme, calls>>

\* the handler ends with response r and logs l, before any fetch
Respond(r, l) ==
  /\ pc' = "done"
  /\ response' = r
  /\ logs' = l
  /\ UNCHANGED <<outside, rng, scrapers, cur, idx, results, product1Data, product2Data,
                 comparison, readme, calls>>

\* POST from the arrival of request r to its first await on a source, or to
\* the response when it ends before
Handle(r) ==
  /\ pc = "idle"
  /\ req' = r
  /\ UNCHANGED env
  /\ IF ~r.parsable
     THEN LET e == ErrorThrown(Lit("Unexpected token in JSON"))
              l == error(logs, Lit("Error in product comparison"),
                         [error |-> ErrorMessage(e)])
          IN Respond(CaughtResponse(l, e), l)
     ELSE IF Falsy(r.body, "product1") \/ Falsy(r.body, "product2")
     THEN Respond(NamesRequired, logs)
     ELSE IF KeyInvalid(env)
     THEN Respond(KeyNotConfigured,
                  error(logs, Lit("OpenAI API key not configured properly"), NoContext))
     ELSE LET l1 == info(logs,
                     Lit("Starting product comparison with intelligent browser automation"),
                     StartContext(r.body))
          IN IF ~Has(r.body, "methods")
             THEN \* methods.includes throws a TypeError
                  LET e == ErrorThrown(Lit("Cannot read properties of undefined (reading 'includes')"))
                      l == error(l1, Lit("Error in product comparison"),
                                 [error |-> ErrorMessage(e)])
                  IN Respond(CaughtResponse(l, e), l)
             ELSE LET selected == SelectScrapers(r.body.methods)
                  IN IF selected = << >>
                     THEN Respond(NoValidMethods, l1)
                     ELSE /\ scrapers' = selected
                          /\ pc' = "scraping"
                          /\ cur' = 1
                          /\ idx' = 1
                          /\ logs' = BeginFetch(l1, selected[1], r.body.product1)
                          /\ calls' = Append(calls, ScrapeCall(selected[1], r.body.product1))
                          /\ UNCHANGED <<outside, rng, results, product1Data, product2Data,
                                         comparison, readme, response>>

\* a request arrives
POST == pc = "idle" /\ \E r \in Requests : Handle(r)

----------------------------------------------------------------------------
(* Per-Product Aggregator: scrapeProductDataWithFallback, resumed when the *)
(* fetch it awaits settles.  results[k] is the accumulator of the call for *)
(* product k; it keeps the list handed to mergeProductData.                *)

FeatureCount(p) ==
  IF Has(p, "features") THEN Lit(ToString(Len(p.features))) ELSE Lit("0")

\* generateComparisonWithFallback up to its await
BeginComparison(l, p1, p2) ==
  /\ logs' = info(l, Lit("Attempting to generate AI comparison using OpenAI"), NoContext)
  /\ calls' = Append(calls, GenerateCall("comparison", [product1 |-> p1, product2 |-> p2]))
  /\ pc' = "comparing"

\* the aggregator without its last resort
FinalResults_NoLastResort(acc, productName, r) ==
  acc

\* if (results.length === 0) results.push(createIntelligentFallback(productName))
FinalResults(acc, productName, r) ==
  IF acc = << >>
  THEN <<createIntelligentFallback(productName, Draw(r, 1), Draw(r, 2))>>
  ELSE acc

\* a loop that ends as soon as the accumulator holds a record
AfterFetch_StopsAtFirst(acc, l, r) ==
  IF idx < Len(scrapers) /\ acc = << >>
  THEN /\ idx' = idx + 1
       /\ rng' = r
       /\ results' = [results EXCEPT ![cur] = acc]
       /\ logs' = BeginFetch(l, scrapers[idx + 1], ProductName(cur))
       /\ calls' = Append(calls, ScrapeCall(scrapers[idx + 1], ProductName(cur)))
       /\ UNCHANGED <<outside, env, req, pc, scrapers, cur, product1Data, product2Data,
                      comparison, readme, response>>
  ELSE LET productName == ProductName(cur)
           final  == FinalResults(acc, productName, r)
           l2     == IF acc = << >>
                     THEN info(l, Lit("Creating intelligent fallback data for ") \o productName,
                               NoContext)
                     ELSE l
           merged == mergeProductData(final, productName)
       IN /\ results' = [results EXCEPT ![cur] = final]
          /\ rng' = IF acc = << >> THEN Advance(r, 2) ELSE r
          /\ UNCHANGED <<outside, env, req, scrapers, comparison, readme, response>>
          /\ IF cur = 1
             THEN /\ product1Data' = merged
                  /\ cur' = 2
                  /\ idx' = 1
                  /\ logs' = BeginFetch(l2, scrapers[1], ProductName(2))
                  /\ calls' = Append(calls, ScrapeCall(scrapers[1], ProductName(2)))
                  /\ UNCHANGED <<outside, pc, product2Data>>
             ELSE /\ product2Data' = merged
                  /\ BeginComparison(
                       info(l2, Lit("Intelligent browser automation completed"),
                            [product1Features |-> FeatureCount(product1Data),
                             product2Features |-> FeatureCount(merged)]),
                       product1Data, merged)
                  /\ UNCHANGED <<outside, cur, idx, product1Data>>

\* the rest of the handler once the fetch of scrapers[idx] for product cur
\* has left accumulator acc, logs l and generator position r: the next fetch
\* of the loop, or the end of the loop, the merge and what POST does next
AfterFetch(acc, l, r) ==
  IF idx < Len(scrapers)
  THEN /\ idx' = idx + 1
       /\ rng' = r
       /\ results' = [results EXCEPT ![cur] = acc]
       /\ logs' = BeginFetch(l, scrapers[idx + 1], ProductName(cur))
       /\ calls' = Append(calls, ScrapeCall(scrapers[idx + 1], ProductName(cur)))
       /\ UNCHANGED <<outside, env, req, pc, scrapers, cur, product1Data, product2Data,
                      comparison, readme, response>>
  ELSE LET productName == ProductName(cur)
           final  == FinalResults(acc, productName, r)
           l2     == IF acc = << >>
                     THEN info(l, Lit("Creating intelligent fallback data for ") \o productName,
                               NoContext)
                     ELSE l
           merged == mergeProductData(final, productName)
       IN /\ results' = [results EXCEPT ![cur] = final]
          /\ rng' = IF acc = << >> THEN Advance(r, 2) ELSE r
          /\ UNCHANGED <<outside, env, req, scrapers, comparison, readme, response>>
          /\ IF cur = 1
             THEN /\ product1Data' = merged
                  /\ cur' = 2
                  /\ idx' = 1
                  /\ logs' = BeginFetch(l2, scrapers[1], ProductName(2))
                  /\ calls' = Append(calls, ScrapeCall(scrapers[1], ProductName(2)))
                  /\ UNCHANGED <<outside, pc, product2Data>>
             ELSE /\ product2Data' = merged
                  /\ BeginComparison(
                       info(l2, Lit("Intelligent browser automation completed"),
                            [product1Features |-> FeatureCount(product1Data),
                             product2Features |-> FeatureCount(merged)]),
                       product1Data, merged)
                  /\ UNCHANGED <<outside, cur, idx, product1Data>>

\* scraper.scrapeProduct resolves with a record
ScrapeReturns(data) ==
  /\ pc = "scraping"
  /\ data \in SourceRecords(scrapers[idx])
  /\ AfterFetch(Append(results[cur], data),
                info(logs, Lit("Intelligent ") \o Lit(scrapers[idx]) \o Lit(" completed for ")
                           \o ProductName(cur), NoContext),
                rng)

\* scraper.scrapeProduct resolves with null or undefined
ScrapeReturnsEmpty ==
  /\ pc = "scraping"
  /\ AfterFetch(results[cur], logs, rng)

\* a catch block that logs the warning and pushes nothing
ScrapeThrows_NoFallback(e) ==
  /\ pc = "scraping"
  /\ AfterFetch(results[cur],
                warn(logs, Lit("Scraper ") \o Lit(scrapers[idx])
                           \o Lit(" had issues, using fallback data"),
                     [product |-> ProductName(cur), error |-> ErrorMessage(e)]),
                rng)

\* scraper.scrapeProduct throws e
ScrapeThrows(e) ==
  /\ pc = "scraping"
  /\ AfterFetch(Append(results[cur],
                       createIntelligentFallback(ProductName(cur), Draw(rng, 1), Draw(rng, 2))),
                warn(logs, Lit("Scraper ") \o Lit(scrapers[idx])
                           \o Lit(" had issues, using fallback data"),
                     [product |-> ProductName(cur), error |-> ErrorMessage(e)]),
                Advance(rng, 2))

----------------------------------------------------------------------------
(* Comparison Generator and Document Generator *)

\* a README generation started alongside the comparison: its prompt takes
\* the comparison held before the Comparison Generator returned
BeginReadme_BesideComparison(l, text) ==
  /\ comparison' = text
  /\ logs' = info(l, Lit("Attempting to generate README using OpenAI"), NoContext)
  /\ calls' = Append(calls, GenerateCall("readme",
                 [product1 |-> NameOf(product1Data), product2 |-> NameOf(product2Data),
                  comparison |-> comparison]))
  /\ pc' = "documenting"
  /\ UNCHANGED <<outside, env, rng, req, scrapers, cur, idx, results, product1Data,
                 product2Data, readme, response>>

\* generateReadmeWithFallback up to its await
BeginReadme(l, text) ==
  /\ comparison' = text
  /\ logs' = info(l, Lit("Attempting to generate README using OpenAI"), NoContext)
  /\ calls' = Append(calls, GenerateCall("readme",
                 [product1 |-> NameOf(product1Data), product2 |-> NameOf(product2Data),
                  comparison |-> text]))
  /\ pc' = "documenting"
  /\ UNCHANGED <<outside, env, rng, req, scrapers, cur, idx, results, product1Data, product2Data,
                 readme, response>>

\* generateText of the comparison resolves
ComparisonTextReturns(text) ==
  /\ pc = "comparing"
  /\ BeginReadme(info(logs, Lit("AI comparison generated successfully"), NoContext), text)

\* generateComparisonWithFallback without its try/catch: the error reaches
\* the catch block of POST
ComparisonTextFails_Rethrows(e) ==
  /\ pc = "comparing"
  /\ LET l == error(logs, Lit("Error in product comparison"), [error |-> ErrorMessage(e)])
     IN Respond(CaughtResponse(l, e), l)
  /\ UNCHANGED <<outside, env, req>>

\* generateText of the comparison throws e
ComparisonTextFails(e) ==
  /\ pc = "comparing"
  /\ BeginReadme(error(logs, Lit("Failed to generate AI comparison"),
                       [error |-> ErrorMessage(e)]),
                 generateIntelligentFallbackComparison(product1Data, product2Data))

\* the result object, the last log entry and the response of POST
Succeed(l, text) ==
  /\ readme' = text
  /\ response' = JsonResponse(200,
       [product1 |-> product1Data, product2 |-> product2Data,
        comparison |-> comparison, readme |-> text, logs |-> getLogs(l)])
  /\ logs' = info(l, Lit("Product comparison completed successfully"), NoContext)
  /\ pc' = "done"
  /\ UNCHANGED <<outside, env, rng, req, scrapers, cur, idx, results, product1Data, product2Data,
                 comparison, calls>>

\* generateText of the README resolves
ReadmeTextReturns(text) ==
  /\ pc = "documenting"
  /\ Succeed(info(logs, Lit("README generated successfully"), NoContext), text)

\* generateText of the README throws e
ReadmeTextFails(e) ==
  /\ pc = "documenting"
  /\ Succeed(error(logs, Lit("Failed to generate README"), [error |-> ErrorMessage(e)]),
             generateIntelligentFallbackReadme(product1Data, product2Data, comparison))

----------------------------------------------------------------------------

Next ==
  \/ POST
  \/ \E data \in UNION {SourceRecords(cls) : cls \in ScraperClasses} : ScrapeReturns(data)
  \/ ScrapeReturnsEmpty
  \/ \E e \in ScrapeErrors : ScrapeThrows(e)
  \/ \E text \in LLMTexts : ComparisonTextReturns(text)
  \/ \E e \in LLMErrors : ComparisonTextFails(e)
  \/ \E text \in LLMTexts : ReadmeTextReturns(text)
  \/ \E e \in LLMErrors : ReadmeTextFails(e)

Spec == Init /\ [][Next]_vars

----------------------------------------------------------------------------
(* mergeProductData on its own: every list of at most MaxLen partial       *)
(* records, merged under a product name                                    *)

\* an object without any field
EmptyObject == << >>

MergeRecords ==
  {RecordA, RecordB, RecordC, RecordD, EmptyObject,
   createIntelligentFallback(Lit(Name_Desk), Draw(1, 1), Draw(1, 2))}

MergeInputs == SeqsUpTo(MergeRecords, MaxLen)

InitMerge ==
  /\ env = << >>
  /\ rng = 1
  /\ req \in {[parsable |-> TRUE, body |-> [product1 |-> n, product2 |-> n]] : n \in {Lit(Name_Desk)}}
  /\ pc = "merge"
  /\ scrapers = << >>
  /\ cur = 1
  /\ idx = 1
  /\ results \in {<<rs, << >> >> : rs \in MergeInputs}
  /\ product1Data = NoRecord
  /\ product2Data = NoRecord
  /\ comparison = EmptyText
  /\ readme = EmptyText
  /\ logs = << >>
  /\ response = NoResponse
  /\ calls = << >>
  /\ foreign = {}
  /\ PageLoaded
  /\ ManagerBuilt

\* the call mergeProductData(results, productName)
CallMerge ==
  /\ pc = "merge"
  /\ product1Data' = mergeProductData(results[1], ProductName(1))
  /\ pc' = "merged"
  /\ UNCHANGED <<outside, env, rng, req, scrapers, cur, idx, results, product2Data,
                 comparison, readme, logs, response, calls>>

NextMerge == CallMerge

SpecMerge == InitMerge /\ [][NextMerge]_vars

----------------------------------------------------------------------------
(* The fallback templates on their own: every pair of merged records *)

RenderRecords ==
  {mergeProductData(rs, n) : rs \in SeqsUpTo(MergeRecords, 1), n \in AllNames}

InitRender ==
  /\ env = << >>
  /\ rng = 1
  /\ req = NoRequest
  /\ pc = "render"
  /\ scrapers = << >>
  /\ cur = 1
  /\ idx = 1
  /\ results = << << >>, << >> >>
  /\ product1Data \in RenderRecords
  /\ product2Data \in RenderRecords
  /\ comparison \in LLMTexts
  /\ readme = EmptyText
  /\ logs = << >>
  /\ response = NoResponse
  /\ calls = << >>
  /\ foreign = {}
  /\ PageLoaded
  /\ ManagerBuilt

\* the call generateIntelligentFallbackComparison(product1, product2)
RenderComparison ==
  /\ pc = "render"
  /\ comparison' = generateIntelligentFallbackComparison(product1Data, product2Data)
  /\ pc' = "compared"
  /\ UNCHANGED <<outside, env, rng, req, scrapers, cur, idx, results, product1Data,
                 product2Data, readme, logs, response, calls>>

\* the call generateIntelligentFallbackReadme(product1, product2, comparison),
\* comparison being the model's text or the fallback comparison
RenderReadme ==
  /\ pc \in {"render", "compared"}
  /\ readme' = generateIntelligentFallbackReadme(product1Data, product2Data, comparison)
  /\ pc' = IF pc = "render" THEN "documented" ELSE "both"
  /\ UNCHANGED <<outside, env, rng, req, scrapers, cur, idx, results, product1Data,
                 product2Data, comparison, logs, response, calls>>

NextRender == RenderComparison \/ RenderReadme

SpecRender == InitRender /\ [][NextRender]_vars

----------------------------------------------------------------------------
(* Two POST calls on the one logger of the module (const logger, line 9):  *)
(* one request is followed through the handler, the other arrives before   *)
(* it or while it awaits a source or the model.                            *)

\* most entries of other requests the logger is let hold before it stops
\* taking new arrivals
MaxForeign == 2

\* the followed request: rejected at once, or served by one source
SharedRequests ==
  { [parsable |-> FALSE, body |-> << >>],
    [parsable |-> TRUE,
     body |-> [product1 |-> Lit(Name_iPhone), product2 |-> Lit(Name_Desk),
               methods |-> << >>]],
    [parsable |-> TRUE,
     body |-> [product1 |-> Lit(Name_iPhone), product2 |-> Lit(Name_Desk),
               methods |-> <<"playwright">>]] }

\* the other request
OtherRequests ==
  { [parsable |-> FALSE, body |-> << >>],
    [parsable |-> TRUE,
     body |-> [product1 |-> Lit(Name_Galaxy), product2 |-> Lit(Name_Desk),
               methods |-> <<"puppeteer">>]] }

\* the entries the logger holds once POST has run on request r, from its
\* arrival to its response or to its first await
ArrivalLogs(l, r) ==
  IF ~r.parsable
  THEN error(l, Lit("Error in product comparison"),
             [error |-> Lit("Unexpected token in JSON")])
  ELSE IF Falsy(r.body, "product1") \/ Falsy(r.body, "product2")
  THEN l
  ELSE IF KeyInvalid(env)
  THEN error(l, Lit("OpenAI API key not configured properly"), NoContext)
  ELSE LET l1 == info(l,
                   Lit("Starting product comparison with intelligent browser automation"),
                   StartContext(r.body))
           selected == SelectScrapers(r.body.methods)
       IN IF selected = << >> THEN l1
          ELSE BeginFetch(l1, selected[1], r.body.product1)

InitShared ==
  /\ env \in Environments
  /\ rng = 1
  /\ req \in SharedRequests
  /\ pc = "idle"
  /\ scrapers = << >>
  /\ cur = 1
  /\ idx = 1
  /\ results = << << >>, << >> >>
  /\ product1Data = NoRecord
  /\ product2Data = NoRecord
  /\ comparison = EmptyText
  /\ readme = EmptyText
  /\ logs = << >>
  /\ response = NoResponse
  /\ calls = << >>
  /\ foreign = {}
  /\ PageLoaded
  /\ ManagerBuilt

\* the followed request arrives
FollowedPOST == pc = "idle" /\ Handle(req)

\* POST runs on another request, before the followed one arrives or while
\* the followed one awaits
OtherPOST(r) ==
  /\ pc \in {"idle", "scraping", "comparing", "documenting"}
  /\ Cardinality(foreign) < MaxForeign
  /\ logs' = ArrivalLogs(logs, r)
  /\ foreign' = foreign \cup (Len(logs) + 1 .. Len(logs'))
  /\ UNCHANGED <<env, rng, req, pc, scrapers, cur, idx, results, product1Data,
                 product2Data, comparison, readme, response, calls, clientVars,
                 sessionMap, now, nextSweep, lastCall>>

NextShared ==
  \/ FollowedPOST
  \/ \E r \in OtherRequests : OtherPOST(r)
  \/ \E data \in UNION {SourceRecords(cls) : cls \in ScraperClasses} : ScrapeReturns(data)
  \/ ScrapeReturnsEmpty
  \/ \E e \in ScrapeErrors : ScrapeThrows(e)
  \/ \E text \in LLMTexts : ComparisonTextReturns(text)
  \/ \E e \in LLMErrors : ComparisonTextFails(e)
  \/ \E text \in LLMTexts : ReadmeTextReturns(text)
  \/ \E e \in LLMErrors : ReadmeTextFails(e)

SpecShared == InitShared /\ [][NextShared]_vars

----------------------------------------------------------------------------
(* The handler on sources that resolve with partial records: a truthy      *)
(* object that holds some fields, or none                                  *)

\* what a source may resolve with besides a full record
PartialRecords == {EmptyObject, RecordA, RecordD}

SourcesRequests ==
  { [parsable |-> TRUE,
     body |-> [product1 |-> Lit(Name_iPhone), product2 |-> Lit(Name_Desk),
               methods |-> m]] :
    m \in {<<"playwright">>, <<"scrapybara", "puppeteer">>} }

InitSources ==
  /\ env = [OPENAI_API_KEY |-> Lit("sk-proj-0123")]
  /\ rng = 1
  /\ req \in SourcesRequests
  /\ pc = "idle"
  /\ scrapers = << >>
  /\ cur = 1
  /\ idx = 1
  /\ results = << << >>, << >> >>
  /\ product1Data = NoRecord
  /\ product2Data = NoRecord
  /\ comparison = EmptyText
  /\ readme = EmptyText
  /\ logs = << >>
  /\ response = NoResponse
  /\ calls = << >>
  /\ foreign = {}
  /\ PageLoaded
  /\ ManagerBuilt

\* scraper.scrapeProduct resolves with a partial record: if (data) holds
ScrapeReturnsPartial(data) ==
  /\ pc = "scraping"
  /\ data \in PartialRecords
  /\ AfterFetch(Append(results[cur], data),
                info(logs, Lit("Intelligent ") \o Lit(scrapers[idx]) \o Lit(" completed for ")
                           \o ProductName(cur), NoContext),
                rng)

NextSources ==
  \/ FollowedPOST
  \/ \E data \in PartialRecords : ScrapeReturnsPartial(data)
  \/ ScrapeReturnsEmpty
  \/ \E e \in ScrapeErrors : ScrapeThrows(e)
  \/ \E text \in LLMTexts : ComparisonTextReturns(text)
  \/ \E e \in LLMErrors : ComparisonTextFails(e)
  \/ \E text \in LLMTexts : ReadmeTextReturns(text)
  \/ \E e \in LLMErrors : ReadmeTextFails(e)

SpecSources == InitSources /\ [][NextSources]_vars

----------------------------------------------------------------------------
(* The handler on names of every category, their sources free to fail, so   *)
(* that createIntelligentFallback runs on each name                         *)

FallbackNames ==
  { Lit(Name_iPhone), Lit(Name_Galaxy), Lit(Name_Headphones), Lit(Name_GalaxyBook),
    Lit(Name_ThinkPad), Lit(Name_MacBook), Lit(Name_Laptop), Lit(Name_Desk) }

FallbackRequests ==
  { [parsable |-> TRUE, body |-> [product1 |-> a, product2 |-> b, methods |-> m]] :
    a \in FallbackNames, b \in FallbackNames,
    m \in {<<"playwright">>, <<"scrapybara", "puppeteer">>} }

InitFallback ==
  /\ env = [OPENAI_API_KEY |-> Lit("sk-proj-0123")]
  /\ rng = 1
  /\ req \in FallbackRequests
  /\ pc = "idle"
  /\ scrapers = << >>
  /\ cur = 1
  /\ idx = 1
  /\ results = << << >>, << >> >>
  /\ product1Data = NoRecord
  /\ product2Data = NoRecord
  /\ comparison = EmptyText
  /\ readme = EmptyText
  /\ logs = << >>
  /\ response = NoResponse
  /\ calls = << >>
  /\ foreign = {}
  /\ PageLoaded
  /\ ManagerBuilt

NextFallback ==
  \/ FollowedPOST
  \/ \E data \in UNION {SourceRecords(cls) : cls \in ScraperClasses} : ScrapeReturns(data)
  \/ ScrapeReturnsEmpty
  \/ \E e \in ScrapeErrors : ScrapeThrows(e)
  \/ \E text \in LLMTexts : ComparisonTextReturns(text)
  \/ \E e \in LLMErrors : ComparisonTextFails(e)
  \/ \E text \in LLMTexts : ReadmeTextReturns(text)
  \/ \E e \in LLMErrors : ReadmeTextFails(e)

SpecFallback == InitFallback /\ [][NextFallback]_vars

----------------------------------------------------------------------------
(* The page: startComparison, its polling interval and its timeout.  One    *)
(* run is followed from the click on; the start request and the status     *)
(* requests are answered by the server or fail, and a status request that  *)
(* was answered reaches its callback at any later moment.                  *)

\* status requests the interval sends before the timeout is due
\* (300000 ms / 2000 ms in the code)
MaxPolls == 2

handlerVars == <<env, rng, req, pc, scrapers, cur, idx, results, product1Data,
                 product2Data, comparison, readme, logs, response, calls, foreign>>

InitClient ==
  /\ env = << >>
  /\ rng = 1
  /\ req = NoRequest
  /\ pc = "idle"
  /\ scrapers = << >>
  /\ cur = 1
  /\ idx = 1
  /\ results = << << >>, << >> >>
  /\ product1Data = NoRecord
  /\ product2Data = NoRecord
  /\ comparison = EmptyText
  /\ readme = EmptyText
  /\ logs = << >>
  /\ response = NoResponse
  /\ calls = << >>
  /\ foreign = {}
  /\ PageLoaded
  /\ ManagerBuilt

\* newSessions: one pending session per product and selected method, here
\* for one method
NewSessions ==
  [i \in 1..2 |-> [id |-> i, status |-> "pending", progress |-> 0]]

\* what /api/scraping-status answers: completed with a result; progress with
\* sessions and currentStep; progress with neither; or the request fails
Answers == {"completed", "progress", "bare", "failed"}

\* startComparison from the click to its await of the start request; the
\* button is disabled while isRunning holds
Click ==
  /\ startPc = "ready"
  /\ ~isRunning
  /\ isRunning' = TRUE
  /\ currentStep' = "Initializing browser sessions..."
  /\ sessions' = NewSessions
  /\ comparisonResult' = NoResult
  /\ closure' = [isRunning |-> isRunning, currentStep |-> currentStep]
  /\ startPc' = "starting"
  /\ UNCHANGED <<handlerVars, sessionMap, now, nextSweep, lastCall,
               pollInterval, timer, inflight, ticks, serverDone>>

\* the start request settles: with response.ok the interval and the timeout
\* are set, otherwise the catch block of startComparison runs
StartSettles(ok) ==
  /\ startPc = "starting"
  /\ IF ok
     THEN /\ pollInterval' = TRUE
          /\ timer' = TRUE
          /\ startPc' = "polling"
          /\ UNCHANGED <<isRunning, currentStep>>
     ELSE /\ isRunning' = FALSE
          /\ currentStep' = "Error occurred during comparison"
          /\ startPc' = "failed"
          /\ UNCHANGED <<pollInterval, timer>>
  /\ UNCHANGED <<handlerVars, sessionMap, now, nextSweep, lastCall,
               sessions, comparisonResult, closure, inflight, ticks,
                 serverDone>>

\* the interval fires: its callback sends a status request and awaits it
Tick ==
  /\ pollInterval
  /\ ticks < MaxPolls
  /\ ticks' = ticks + 1
  /\ inflight' = Append(inflight, "sent")
  /\ UNCHANGED <<handlerVars, sessionMap, now, nextSweep, lastCall,
               isRunning, currentStep, sessions, comparisonResult, startPc,
                 closure, pollInterval, timer, serverDone>>

\* the server finishes the run
ServerCompletes ==
  /\ startPc = "polling"
  /\ ~serverDone
  /\ serverDone' = TRUE
  /\ UNCHANGED <<handlerVars, sessionMap, now, nextSweep, lastCall,
               isRunning, currentStep, sessions, comparisonResult, startPc,
                 closure, pollInterval, timer, inflight, ticks>>

\* status request i is answered, or fails
StatusAnswered(i, a) ==
  /\ i \in 1..Len(inflight)
  /\ inflight[i] = "sent"
  /\ a \in (IF serverDone THEN {"completed", "failed"} ELSE {"progress", "bare", "failed"})
  /\ inflight' = [inflight EXCEPT ![i] = a]
  /\ UNCHANGED <<handlerVars, sessionMap, now, nextSweep, lastCall,
               isRunning, currentStep, sessions, comparisonResult, startPc,
                 closure, pollInterval, timer, ticks, serverDone>>

\* the callback of status request i resumes with its answer
PollSettles(i) ==
  /\ i \in 1..Len(inflight)
  /\ inflight[i] \in Answers
  /\ inflight' = [inflight EXCEPT ![i] = "settled"]
  /\ CASE inflight[i] = "completed" ->
            /\ pollInterval' = FALSE
            /\ comparisonResult' = "result"
            /\ isRunning' = FALSE
            /\ currentStep' = "Comparison completed!"
            /\ UNCHANGED sessions
       [] inflight[i] = "progress" ->
            /\ sessions' = [k \in 1..Len(sessions) |->
                              [sessions[k] EXCEPT !.status = "running", !.progress = 50]]
            /\ currentStep' = "Scraping product data..."
            /\ UNCHANGED <<pollInterval, comparisonResult, isRunning>>
       [] inflight[i] = "bare" ->
            /\ currentStep' = closure.currentStep
            /\ UNCHANGED <<sessions, pollInterval, comparisonResult, isRunning>>
       [] inflight[i] = "failed" ->
            /\ pollInterval' = FALSE
            /\ isRunning' = FALSE
            /\ currentStep' = "Error occurred during polling"
            /\ UNCHANGED <<sessions, comparisonResult>>
  /\ UNCHANGED <<handlerVars, sessionMap, now, nextSweep, lastCall,
               startPc, closure, timer, ticks, serverDone>>

\* the timeout set by startComparison fires, once the interval has had its
\* share of firings or was cleared: it tests the isRunning of its closure
Timeout ==
  /\ timer
  /\ ticks = MaxPolls \/ ~pollInterval
  /\ timer' = FALSE
  /\ pollInterval' = FALSE
  /\ IF closure.isRunning
     THEN isRunning' = FALSE /\ currentStep' = "Process timed out"
     ELSE UNCHANGED <<isRunning, currentStep>>
  /\ UNCHANGED <<handlerVars, sessionMap, now, nextSweep, lastCall,
               sessions, comparisonResult, startPc, closure, inflight, ticks,
                 serverDone>>

NextClient ==
  \/ Click
  \/ \E ok \in BOOLEAN : StartSettles(ok)
  \/ Tick
  \/ ServerCompletes
  \/ \E i \in 1..MaxPolls, a \in Answers : StatusAnswered(i, a)
  \/ \E i \in 1..MaxPolls : PollSettles(i)
  \/ Timeout

SpecClient == InitClient /\ [][NextClient]_vars

----------------------------------------------------------------------------
(* SessionManager: set, get, delete, clear and the periodic sweep, on a    *)
(* clock of ticks                                                          *)

\* last tick of the clock
MaxTime == 7

SessionIds == {"s1", "s2"}

\* the sessions a caller stores at tick t: started at t or before
SessionsAt(t) == {[startTime |-> st, data |-> d] : st \in 0..t, d \in {"a", "b"}}

\* this.sessions.get(id): the session under id, or undefined when has(id)
\* is false
get(id) ==
  IF id \in DOMAIN sessionMap THEN sessionMap[id] ELSE [undefined |-> TRUE]

\* set(id, session)
Set(id, session) ==
  /\ session \in SessionsAt(now)
  /\ sessionMap' = [k \in DOMAIN sessionMap \cup {id} |->
                      IF k = id THEN session ELSE sessionMap[k]]
  /\ lastCall' = [op |-> "set", id |-> id]
  /\ UNCHANGED <<handlerVars, clientVars, now, nextSweep>>

\* get(id)
Get(id) ==
  /\ lastCall' = [op |-> "get", id |-> id, returned |-> get(id)]
  /\ UNCHANGED <<handlerVars, clientVars, sessionMap, now, nextSweep>>

\* delete(id)
Delete(id) ==
  /\ sessionMap' = [k \in DOMAIN sessionMap \ {id} |-> sessionMap[k]]
  /\ lastCall' = [op |-> "delete", id |-> id,
                  returned |-> id \in DOMAIN sessionMap]
  /\ UNCHANGED <<handlerVars, clientVars, now, nextSweep>>

\* clear()
Clear ==
  /\ sessionMap' = << >>
  /\ lastCall' = [op |-> "clear"]
  /\ UNCHANGED <<handlerVars, clientVars, now, nextSweep>>

\* the clock moves on, not past a sweep that is due
TimePasses ==
  /\ now < MaxTime
  /\ now < nextSweep
  /\ now' = now + 1
  /\ UNCHANGED <<handlerVars, clientVars, sessionMap, nextSweep, lastCall>>

\* a sweep that also removes the sessions whose age is exactly the limit
Sweep_AtLimit ==
  /\ now = nextSweep
  /\ LET old == {id \in DOMAIN sessionMap :
                   now - sessionMap[id].startTime >= ThirtyMinutes}
     IN /\ sessionMap' = [k \in DOMAIN sessionMap \ old |-> sessionMap[k]]
        /\ lastCall' = [op |-> "sweep", removed |-> old]
  /\ nextSweep' = nextSweep + ThirtyMinutes
  /\ UNCHANGED <<handlerVars, clientVars, now>>

\* the callback of the cleanup interval
Sweep ==
  /\ now = nextSweep
  /\ LET old == {id \in DOMAIN sessionMap :
                   now - sessionMap[id].startTime > ThirtyMinutes}
     IN /\ sessionMap' = [k \in DOMAIN sessionMap \ old |-> sessionMap[k]]
        /\ lastCall' = [op |-> "sweep", removed |-> old]
  /\ nextSweep' = nextSweep + ThirtyMinutes
  /\ UNCHANGED <<handlerVars, clientVars, now>>

NextManager ==
  \/ \E id \in SessionIds : \E session \in SessionsAt(now) : Set(id, session)
  \/ \E id \in SessionIds : Get(id)
  \/ \E id \in SessionIds : Delete(id)
  \/ Clear
  \/ TimePasses
  \/ Sweep

SpecManager == InitClient /\ [][NextManager]_vars

----------------------------------------------------------------------------
(* Properties *)

RandomValues == Range(RandomStream)

\* rec is a record of the Fallback Generator for this name
IsFallbackOf(rec, productName) ==
  \E a \in RandomValues, b \in RandomValues :
    rec = createIntelligentFallback(productName, a, b)

\* the call the handler issues once the fetch of scrapers[idx] for product
\* cur is dealt with
NextCallAfterFetch ==
  IF idx < Len(scrapers) THEN ScrapeCall(scrapers[idx + 1], ProductName(cur))
  ELSE IF cur = 1 THEN ScrapeCall(scrapers[1], ProductName(2))
  ELSE GenerateCall("comparison", [product1 |-> product1Data', product2 |-> product2Data'])

HasWarnAmong(l, from, to) == \E i \in from..to : l[i].level = "warn"

\* the accumulator of the current product grew by exactly one fallback record
OneFallbackAppended ==
  /\ Len(results'[cur]) = Len(results[cur]) + 1
  /\ SubSeq(results'[cur], 1, Len(results[cur])) = results[cur]
  /\ IsFallbackOf(results'[cur][Len(results'[cur])], ProductName(cur))

FetchFails == ScrapeReturnsEmpty \/ \E e \in ScrapeErrors : ScrapeThrows(e)

\* C1, as stated: every fetch that throws or returns an empty result logs a
\* warning and appends exactly one Fallback-Generator record to the
\* accumulator in that source's position.
C1_AsStated ==
  [][FetchFails =>
       /\ HasWarnAmong(logs', Len(logs) + 1, Len(logs'))
       /\ OneFallbackAppended]_vars

\* C1, amended: a fetch that throws logs a warning and appends exactly one
\* Fallback-Generator record in that source's position, and the handler goes
\* on with the next call; a fetch that returns an empty result logs no warning
\* and appends nothing, except that one Fallback-Generator record is pushed
\* when the accumulator is still empty after the last source; in neither case
\* does the request end in an error response.
C1_SourceFailureAbsorbed ==
  /\ [][(\E e \in ScrapeErrors : ScrapeThrows(e)) =>
          /\ logs'[Len(logs) + 1].level = "warn"
          /\ OneFallbackAppended
          /\ calls' = Append(calls, NextCallAfterFetch)
          /\ response' = NoResponse]_vars
  /\ [][ScrapeReturnsEmpty =>
          /\ ~HasWarnAmong(logs', Len(logs) + 1, Len(logs'))
          /\ IF results[cur] = << >> /\ idx = Len(scrapers)
             THEN OneFallbackAppended
             ELSE results'[cur] = results[cur]
          /\ calls' = Append(calls, NextCallAfterFetch)
          /\ response' = NoResponse]_vars
  /\ [](pc = "done" /\ calls # << >> => response.status = 200)

\* the class that returned a record, "" for a record no source returned
SourceTag(rec) ==
  IF Has(rec, "specifications") /\ HasKey(rec.specifications, "Source")
  THEN ValueOf(rec.specifications, "Source")[1]
  ELSE ""

\* C1 witness: the first source returned a record, the second threw and its
\* fallback record stands second in the accumulator, under a warning, and the
\* request succeeded.
C1_Witness ==
  /\ pc = "done"
  /\ response.status = 200
  /\ Len(scrapers) = 2
  /\ Len(results[1]) = 2
  /\ SourceTag(results[1][1]) = scrapers[1]
  /\ IsFallbackOf(results[1][2], ProductName(1))
  /\ HasWarnAmong(logs, 1, Len(logs))
  /\ results[2] # << >> /\ \A i \in 1..Len(results[2]) : SourceTag(results[2][i]) # ""

FirstIndex(seq, x) ==
  CHOOSE i \in 1..Len(seq) : seq[i] = x /\ \A j \in 1..(i - 1) : seq[j] # x

FixedOrder == <<"ScrapybaraBrowser", "PlaywrightScraper", "PuppeteerScraper">>

RankOf(cls) == FirstIndex(FixedOrder, cls)

SelectedIds == RecognizedIds \cap Range(req.body.methods)

\* C2, as stated: the source handles stand in the order in which their
\* identifiers appear in the request's methods array.
C2_AsStated ==
  scrapers # << >> =>
    \A a \in SelectedIds, b \in SelectedIds :
      FirstIndex(req.body.methods, a) < FirstIndex(req.body.methods, b)
        => FirstIndex(scrapers, ClassOf(a)) < FirstIndex(scrapers, ClassOf(b))

IsScrapeCall(c) == c.kind = "scrapeProduct"

\* C2, amended: the source handles are those of the recognized identifiers in
\* methods, in the fixed order scrapybara, playwright, puppeteer whatever the
\* order in methods; the sources are invoked in that order, for product1 then
\* for product2, and the records they return stand in that order in the
\* merge input.
C2_FixedSourceOrder ==
  scrapers # << >> =>
    /\ Range(scrapers) = {ClassOf(a) : a \in SelectedIds}
    /\ \A i \in 1..Len(scrapers), j \in 1..Len(scrapers) :
         i < j => RankOf(scrapers[i]) < RankOf(scrapers[j])
    /\ LET sc == SelectSeq(calls, IsScrapeCall)
       IN /\ Len(sc) <= 2 * Len(scrapers)
          /\ \A i \in 1..Len(sc) :
               /\ sc[i].target = (scrapers \o scrapers)[i]
               /\ sc[i].arg = IF i <= Len(scrapers) THEN req.body.product1
                              ELSE req.body.product2
    /\ \A k \in 1..2 : \A i \in 1..Len(results[k]), j \in 1..Len(results[k]) :
         (i < j /\ SourceTag(results[k][i]) # "" /\ SourceTag(results[k][j]) # "")
           => RankOf(SourceTag(results[k][i])) < RankOf(SourceTag(results[k][j]))

\* C2 witness: methods names puppeteer before scrapybara, and the merge input
\* of product1 holds the record of ScrapybaraBrowser before that of
\* PuppeteerScraper.
C2_Witness ==
  /\ pc = "done"
  /\ req.parsable /\ Has(req.body, "methods")
  /\ req.body.methods = <<"puppeteer", "scrapybara">>
  /\ Len(results[1]) = 2
  /\ SourceTag(results[1][1]) = "ScrapybaraBrowser"
  /\ SourceTag(results[1][2]) = "PuppeteerScraper"

NameMissing(f) == ~Has(req.body, f) \/ Len(req.body[f]) = 0

NoSourceSelected ==
  ~Has(req.body, "methods") \/ RecognizedIds \cap Range(req.body.methods) = {}

\* C3, as stated: a request with a name missing, or with methods missing,
\* empty or selecting no recognized source, gets status 400 and no fetch and
\* no model call is made, whatever the credential.
C3_AsStated ==
  (pc = "done" /\ req.parsable
     /\ (NameMissing("product1") \/ NameMissing("product2") \/ NoSourceSelected))
    => response.status = 400 /\ calls = << >>

CredentialGood ==
  /\ Has(env, "OPENAI_API_KEY")
  /\ \E i \in 1..Len(env.OPENAI_API_KEY) : env.OPENAI_API_KEY[i] \notin WhiteSpace
  /\ env.OPENAI_API_KEY # Placeholder

\* C3, amended: a request with a name missing or empty gets status 400
\* whatever the credential; a request with both names, a well-formed
\* credential and a methods array that selects no recognized source gets
\* status 400; with both names and no source selected, a request gets status
\* 500 when the credential is malformed or when methods is missing; in all
\* these cases no fetch and no model call is made.
C3_ValidationRejects ==
  (pc = "done" /\ req.parsable)
    => /\ (NameMissing("product1") \/ NameMissing("product2"))
            => response.status = 400 /\ calls = << >>
       /\ (~NameMissing("product1") /\ ~NameMissing("product2") /\ NoSourceSelected)
            => /\ calls = << >>
               /\ response.status =
                    IF CredentialGood /\ Has(req.body, "methods") THEN 400 ELSE 500

\* C3 witness: both names, a well-formed credential, methods naming only an
\* unrecognized source: status 400 and no call.
C3_Witness ==
  /\ pc = "done"
  /\ req.parsable
  /\ ~NameMissing("product1") /\ ~NameMissing("product2")
  /\ CredentialGood
  /\ Has(req.body, "methods") /\ req.body.methods = <<"selenium">>
  /\ response.status = 400
  /\ calls = << >>

\* the first non-empty value of field f in the list, "" when there is none
FirstNonEmpty(rs, f) ==
  LET filled == {i \in 1..Len(rs) : Has(rs[i], f) /\ Len(rs[i][f]) > 0}
  IN IF filled = {} THEN EmptyText
     ELSE rs[CHOOSE i \in filled : \A j \in filled : i <= j][f]

\* C4: each of price, rating, description and availability of the merged
\* record is the first non-empty value of that field in the input list, and
\* the empty string when no input has one.
C4_ScalarsFirstNonEmpty ==
  pc = "merged" =>
    \A f \in {"price", "rating", "description", "availability"} :
      product1Data[f] = FirstNonEmpty(results[1], f)

\* C4 witness: the first record has an empty price, the second and the third
\* have different prices, and the merged price is the second's; no record has
\* an availability and the merged availability is empty.
C4_Witness ==
  /\ pc = "merged"
  /\ Len(results[1]) = 3
  /\ StrOf(results[1][1], "price") = EmptyText
  /\ StrOf(results[1][2], "price") # EmptyText
  /\ StrOf(results[1][3], "price") # EmptyText
  /\ StrOf(results[1][3], "price") # StrOf(results[1][2], "price")
  /\ product1Data.price = results[1][2].price
  /\ \A i \in 1..3 : StrOf(results[1][i], "availability") = EmptyText
  /\ product1Data.availability = EmptyText

WithSpecs(rs) == {i \in 1..Len(rs) : Has(rs[i], "specifications")}

\* the last record of the list whose specifications have key k
LastWithKey(rs, k) ==
  CHOOSE i \in WithSpecs(rs) :
    /\ HasKey(rs[i].specifications, k)
    /\ \A j \in WithSpecs(rs) : HasKey(rs[j].specifications, k) => j <= i

\* C5: the merged specifications have exactly the keys of the inputs'
\* specifications, each once, and the value of a key is the one given by the
\* last input that has the key.
C5_SpecificationsLastWins ==
  pc = "merged" =>
    LET rs    == results[1]
        specs == product1Data.specifications
    IN /\ Keys(specs) = UNION {Keys(rs[i].specifications) : i \in WithSpecs(rs)}
       /\ Cardinality(Keys(specs)) = Len(specs)
       /\ \A k \in Keys(specs) :
            ValueOf(specs, k) = ValueOf(rs[LastWithKey(rs, k)].specifications, k)

\* C5 witness: record A {price "", Color Red} then record B {price $10,
\* Color Blue, Size M} merge to price $10, Color Blue, Size M.
C5_Witness ==
  /\ pc = "merged"
  /\ results[1] = <<RecordA, RecordB>>
  /\ product1Data.price = Lit("$10")
  /\ Keys(product1Data.specifications) = {"Color", "Size"}
  /\ ValueOf(product1Data.specifications, "Color") = Lit("Blue")
  /\ ValueOf(product1Data.specifications, "Size") = Lit("M")

\* all values of list field f in the input list
AllOf(rs, f) == UNION {Range(rs[i][f]) : i \in {j \in 1..Len(rs) : Has(rs[j], f)}}

Permuted(rs, p) == [i \in 1..Len(rs) |-> rs[p[i]]]

\* C6: for a non-empty input list, the merged features and images hold every
\* element of the inputs' features and images, nothing else, nothing twice,
\* and the same set for every permutation of the list.
C6_FeaturesImagesUnion ==
  (pc = "merged" /\ results[1] # << >>) =>
    \A f \in {"features", "images"} :
      /\ Range(product1Data[f]) = AllOf(results[1], f)
      /\ Cardinality(Range(product1Data[f])) = Len(product1Data[f])
      /\ \A p \in Permutations(1..Len(results[1])) :
           Range(mergeProductData(Permuted(results[1], p), ProductName(1))[f])
             = Range(product1Data[f])

\* C6 witness: record A lists a feature twice and shares a feature and an
\* image with record B; the merge holds three features and two images.
C6_Witness ==
  /\ pc = "merged"
  /\ results[1] = <<RecordA, RecordB>>
  /\ Range(product1Data.features) = {Feature1, Feature2, Feature3}
  /\ Len(product1Data.features) = 3
  /\ Range(product1Data.images) = {Image1, Image2}
  /\ Len(product1Data.images) = 2

Data(k) == IF k = 1 THEN product1Data ELSE product2Data

\* scrapeProductDataWithFallback has returned for product k
Aggregated(k) == DOMAIN Data(k) # {}

\* no source returned a record for product k
AllSourcesFailed(k) == \A i \in 1..Len(results[k]) : SourceTag(results[k][i]) = ""

RecordFields ==
  {"name", "price", "rating", "features", "description", "availability", "images",
   "specifications"}

\* C7: whatever the sources did, the aggregator returned a complete record
\* named after the product from a non-empty merge input, and when every
\* source failed the record's features include those of the Fallback
\* Generator for the name; a request that reached the sources ends in a
\* success response carrying both records.
C7_AggregatorAlwaysReturns ==
  /\ \A k \in 1..2 :
       Aggregated(k) =>
         /\ DOMAIN Data(k) = RecordFields
         /\ Data(k).name = ProductName(k)
         /\ Len(Data(k).name) > 0
         /\ results[k] # << >>
         /\ AllSourcesFailed(k) =>
              Range(createIntelligentFallback(ProductName(k), 0, 0).features)
                \subseteq Range(Data(k).features)
  /\ (pc = "done" /\ calls # << >>) =>
       /\ response.status = 200
       /\ Aggregated(1) /\ response.body.product1 = product1Data
       /\ Aggregated(2) /\ response.body.product2 = product2Data

IsLastResortLog(e) ==
  e.level = "info" /\ Len(e.message) > 0
    /\ e.message[1] = "Creating intelligent fallback data for "

\* C7 witness: of two sources one threw and one returned nothing for
\* product1, both returned nothing for product2, and the response carries
\* two records with the fallback features.
C7_Witness ==
  /\ pc = "done"
  /\ response.status = 200
  /\ Len(scrapers) = 2
  /\ AllSourcesFailed(1) /\ AllSourcesFailed(2)
  /\ HasWarnAmong(logs, 1, Len(logs))
  /\ \E i \in 1..Len(logs) : IsLastResortLog(logs[i])
  /\ Len(response.body.product1.features) >= 4
  /\ Len(response.body.product2.features) >= 4

IsGenerateCall(c) == c.kind = "generateText"

\* C8: when generateText fails for the comparison or for the README, an
\* error-level entry is logged, the text is the fallback template's, and the
\* request ends in a success response carrying both texts.
C8_GenerationFailureAbsorbed ==
  /\ [][(\E e \in LLMErrors : ComparisonTextFails(e)) =>
          /\ logs'[Len(logs) + 1].level = "error"
          /\ comparison' = generateIntelligentFallbackComparison(product1Data, product2Data)
          /\ response' = NoResponse]_vars
  /\ [][(\E e \in LLMErrors : ReadmeTextFails(e)) =>
          /\ logs'[Len(logs) + 1].level = "error"
          /\ readme' = generateIntelligentFallbackReadme(product1Data, product2Data, comparison)
          /\ response'.status = 200]_vars
  /\ []((pc = "done" /\ SelectSeq(calls, IsGenerateCall) # << >>) =>
          /\ response.status = 200
          /\ response.body.comparison = comparison /\ Len(comparison) > 0
          /\ response.body.readme = readme /\ Len(readme) > 0)

ErrorCount(l) == Cardinality({i \in 1..Len(l) : l[i].level = "error"})

\* C8 witness: both model calls failed, two error entries were logged and the
\* success response carries the two fallback texts.
C8_Witness ==
  /\ pc = "done"
  /\ response.status = 200
  /\ ErrorCount(logs) = 2
  /\ response.body.comparison
       = generateIntelligentFallbackComparison(product1Data, product2Data)
  /\ response.body.readme
       = generateIntelligentFallbackReadme(product1Data, product2Data, comparison)

NotAvailable ==
  {Lit("Price not available"), Lit("Not available"), Lit("Availability unknown"),
   Lit("- Features not available"), Lit("- Specifications not available")}

\* text shows the string value, or one of the placeholders when it is empty
Shows(text, value, placeholders) ==
  IF Len(value) > 0 THEN includes(text, value)
  ELSE \E ph \in placeholders : includes(text, ph)

\* text shows every element of the list, or a placeholder when it is empty
ShowsEach(text, list, placeholders) ==
  IF Len(list) > 0 THEN \A i \in 1..Len(list) : includes(text, list[i])
  ELSE \E ph \in placeholders : includes(text, ph)

\* text shows every specification entry, or a placeholder when there is none
ShowsEntries(text, specs, placeholders) ==
  IF Len(specs) > 0
  THEN \A i \in 1..Len(specs) :
         includes(text, <<"- **", specs[i].key, "**: ">> \o specs[i].value)
  ELSE \E ph \in placeholders : includes(text, ph)

ShowsAllFields(text, p) ==
  /\ includes(text, p.name)
  /\ Shows(text, p.price, NotAvailable)
  /\ Shows(text, p.rating, NotAvailable)
  /\ Shows(text, p.description, NotAvailable)
  /\ Shows(text, p.availability, NotAvailable)
  /\ ShowsEach(text, p.features, NotAvailable)
  /\ ShowsEach(text, p.images, NotAvailable)
  /\ ShowsEntries(text, p.specifications, NotAvailable)

\* C9, as stated: the fallback comparison and the fallback README each show
\* both names and every field of both records, by its value or by a
\* not-available placeholder.
C9_AsStated ==
  /\ pc \in {"compared", "both"} =>
       ShowsAllFields(comparison, product1Data) /\ ShowsAllFields(comparison, product2Data)
  /\ pc \in {"documented", "both"} =>
       ShowsAllFields(readme, product1Data) /\ ShowsAllFields(readme, product2Data)

ComparisonShows(text, p) ==
  /\ includes(text, p.name)
  /\ Shows(text, p.price, {Lit("Price not available")})
  /\ Shows(text, p.availability, {Lit("Availability unknown")})
  /\ ShowsEach(text, p.features, {Lit("- Features not available")})
  /\ ShowsEntries(text, p.specifications, {Lit("- Specifications not available")})

ReadmeShows(text, p) ==
  /\ includes(text, p.name)
  /\ Shows(text, p.price, {Lit("Not available")})
  /\ Shows(text, p.rating, {Lit("Not available")})
  /\ Shows(text, p.availability, {Lit("Not available")})
  /\ ShowsEach(text, p.features, {Lit("- Features not available")})

\* C9, amended: the fallback comparison shows both names and, of both
\* records, the price, the availability, each feature and each specification
\* entry, by value or by the field's placeholder; the fallback README shows
\* both names and, of both records, the price, the rating, the availability
\* and each feature, by value or by placeholder, and embeds the comparison
\* text.
C9_FallbackTextsShowFields ==
  /\ pc \in {"compared", "both"} =>
       ComparisonShows(comparison, product1Data) /\ ComparisonShows(comparison, product2Data)
  /\ pc \in {"documented", "both"} =>
       /\ ReadmeShows(readme, product1Data) /\ ReadmeShows(readme, product2Data)
       /\ includes(readme, comparison)

\* C9 witness: both fallback texts rendered for a first record with no
\* price, no feature and no specification and a second record with all of
\* them.
C9_Witness ==
  /\ pc = "both"
  /\ product1Data.price = EmptyText
  /\ product1Data.features = << >>
  /\ product1Data.specifications = << >>
  /\ product2Data.price # EmptyText
  /\ product2Data.rating # EmptyText
  /\ Len(product2Data.features) > 1
  /\ Len(product2Data.specifications) > 1
  /\ includes(comparison, Lit("- Features not available"))
  /\ includes(readme, comparison)

\* C10: with both names present and the credential unset, empty, blank or the
\* placeholder, the handler answers status 500 with error, details and the
\* four remediation steps in order, and no fetch and no model call is made,
\* whatever methods holds.
C10_CredentialRejectedFirst ==
  (pc = "done" /\ req.parsable /\ ~NameMissing("product1") /\ ~NameMissing("product2")
     /\ ~CredentialGood)
    => /\ response.status = 500
       /\ DOMAIN response.body = {"error", "details", "setup"}
       /\ response.body.error = Lit("OpenAI API key not configured")
       /\ response.body.setup =
            << "1. Go to https://platform.openai.com/api-keys", "\n",
               "2. Create a new API key", "\n",
               "3. Copy the key to your .env file: OPENAI_API_KEY=sk-proj-your-new-key", "\n",
               "4. Restart the development server" >>
       /\ calls = << >>

\* C10 witness: a blank credential, both names and a recognized source in
\* methods: the configuration error and no call.
C10_Witness ==
  /\ pc = "done"
  /\ req.parsable
  /\ ~NameMissing("product1") /\ ~NameMissing("product2")
  /\ Has(env, "OPENAI_API_KEY") /\ env.OPENAI_API_KEY = <<" ", " ">>
  /\ Has(req.body, "methods") /\ req.body.methods = <<"scrapybara">>
  /\ response.status = 500
  /\ Has(response.body, "setup")
  /\ calls = << >>

\* C11: the logs of a response hold no entry appended by another request,
\* whether that request came before or in between.
C11_AsStated ==
  (pc = "done" /\ Has(response.body, "logs"))
    => \A i \in 1..Len(response.body.logs) : i \notin foreign

\* the request passed the names check and the credential check
PastChecks ==
  req.parsable /\ ~NameMissing("product1") /\ ~NameMissing("product2") /\ CredentialGood

\* a failure reached the catch block of POST: the body did not parse, or
\* methods was not there to call includes on
Escaped == ~req.parsable \/ (PastChecks /\ ~Has(req.body, "methods"))

IsCaught(r) == r.status = 500 /\ DOMAIN r.body = {"error", "details", "logs"}

\* C12: a failure that reaches the catch block of POST ends in status 500
\* with error, details and the logs, the last of which is the error entry
\* the catch block appended; a request past the names and credential checks
\* gets status 200, the no-source status 400, or that status-500 response,
\* and with a source selected never the status 400.
C12_EscapedFailureReported ==
  pc = "done" =>
    /\ Escaped =>
         /\ IsCaught(response)
         /\ Len(response.body.details) > 0
         /\ response.body.logs = logs
         /\ Len(logs) > 0
         /\ logs[Len(logs)].level = "error"
         /\ logs[Len(logs)].context = [error |-> response.body.details]
         /\ calls = << >>
    /\ PastChecks =>
         \/ response.status = 200
         \/ response = NoValidMethods /\ NoSourceSelected
         \/ IsCaught(response) /\ Escaped
    /\ (PastChecks /\ ~NoSourceSelected) => response.status = 200

\* C12 witness: both names, a well-formed credential and no methods field:
\* the start entry and the error entry are in the logs of a status-500
\* response.
C12_Witness ==
  /\ pc = "done"
  /\ PastChecks
  /\ ~Has(req.body, "methods")
  /\ IsCaught(response)
  /\ Len(response.body.logs) = 2
  /\ response.body.logs[1].level = "info"
  /\ response.body.logs[2].level = "error"

\* the calls of a served request: n fetches for product1, n for product2,
\* the comparison prompt over the two aggregated records, the README prompt
IsScrapeOf(c, k) == c.kind = "scrapeProduct" /\ c.arg = ProductName(k)

IsPrompt(c, what) == c.kind = "generateText" /\ c.target = what

\* C13: a served request made its calls in the order: the fetches for
\* product1, the fetches for product2, the comparison prompt, the README
\* prompt; each stage starts from the finished result of the one before,
\* the README prompt is issued only when the comparison text is there, and
\* the comparison text of the README prompt is the one of the response.
C13_StagesInOrder ==
  /\ [](Aggregated(2) => Aggregated(1))
  /\ [](pc \in {"comparing", "documenting"} =>
          /\ Aggregated(2)
          /\ \E i \in 1..Len(calls) :
               /\ IsPrompt(calls[i], "comparison")
               /\ calls[i].arg = [product1 |-> product1Data, product2 |-> product2Data])
  /\ [](pc = "documenting" =>
          /\ Len(comparison) > 0
          /\ IsPrompt(calls[Len(calls)], "readme")
          /\ calls[Len(calls)].arg.comparison = comparison
          /\ IsPrompt(calls[Len(calls) - 1], "comparison"))
  /\ [][pc' = "comparing" => pc = "scraping" /\ cur = 2 /\ idx = Len(scrapers)]_vars
  /\ [][pc' = "documenting" => pc = "comparing"]_vars
  /\ [][response'.status = 200 => pc = "documenting"]_vars
  /\ []((pc = "done" /\ response.status = 200) =>
          LET n == Len(scrapers)
          IN /\ Len(calls) = 2 * n + 2
             /\ \A i \in 1..n : IsScrapeOf(calls[i], 1) /\ IsScrapeOf(calls[n + i], 2)
             /\ IsPrompt(calls[2 * n + 1], "comparison")
             /\ IsPrompt(calls[2 * n + 2], "readme")
             /\ calls[2 * n + 2].arg.comparison = response.body.comparison
             /\ response.body.product1 = calls[2 * n + 1].arg.product1
             /\ response.body.product2 = calls[2 * n + 1].arg.product2
             /\ (ErrorCount(logs) > 0 /\ logs[Len(logs) - 1].level = "error")
                  => includes(response.body.readme, response.body.comparison))

\* C13 witness: a request served by two sources whose README fell back to
\* the template: six calls, the last prompt carrying the comparison text of
\* the response, which the README embeds.
C13_Witness ==
  /\ pc = "done"
  /\ response.status = 200
  /\ Len(scrapers) = 2
  /\ Len(calls) = 6
  /\ req.body.product1 # req.body.product2
  /\ logs[Len(logs) - 1].level = "error"
  /\ calls[6].arg.comparison = response.body.comparison
  /\ includes(response.body.readme, response.body.comparison)

\* the sources named by the recognized identifiers of methods
NamedSources ==
  { IF id = "scrapybara" THEN "ScrapybaraBrowser"
    ELSE IF id = "playwright" THEN "PlaywrightScraper"
    ELSE "PuppeteerScraper" :
    id \in {"scrapybara", "playwright", "puppeteer"} \cap Range(req.body.methods) }

\* C14: for a request past the names and credential checks with a methods
\* array, the sources built are those the recognized identifiers of methods
\* name, each once, only they are fetched from, and the response is the
\* status 200 when there is one and the no-source status 400 when there is
\* none, whatever other identifiers methods holds.
C14_UnrecognizedDropped ==
  (pc # "idle" /\ PastChecks /\ Has(req.body, "methods")) =>
    /\ Range(scrapers) = NamedSources
    /\ Len(scrapers) = Cardinality(NamedSources)
    /\ \A i \in 1..Len(calls) :
         calls[i].kind = "scrapeProduct" => calls[i].target \in NamedSources
    /\ pc = "done" =>
         response.status = IF NamedSources = {} THEN 400 ELSE 200

\* C14 witness: methods names an unknown source and puppeteer: the request
\* is served by puppeteer alone.
C14_Witness ==
  /\ pc = "done"
  /\ PastChecks
  /\ Has(req.body, "methods") /\ req.body.methods = <<"selenium", "puppeteer">>
  /\ scrapers = <<"PuppeteerScraper">>
  /\ response.status = 200

\* the step is POST rejecting a request with status 400
Rejects == pc = "idle" /\ pc' = "done" /\ response'.status = 400

\* C15, as stated: a request rejected with status 400 leaves the log
\* sequence of the logger as it was.
C15_AsStated == [][Rejects => logs' = logs]_vars

\* C15, amended: a request rejected for a missing name leaves the log
\* sequence as it was; a request rejected because no source is selected
\* appends one info entry, the start entry with the names and methods of the
\* request, and nothing else; neither makes a fetch or a model call.
C15_RejectionLogs ==
  [][Rejects =>
       /\ calls' = calls
       /\ IF response'.body.error = <<"Both product names are required">>
          THEN logs' = logs
          ELSE /\ response'.body.error = <<"No valid scraping methods selected">>
               /\ Len(logs') = Len(logs) + 1
               /\ SubSeq(logs', 1, Len(logs)) = logs
               /\ logs'[Len(logs')].level = "info"
               /\ logs'[Len(logs')].message =
                    <<"Starting product comparison with intelligent browser automation">>
               /\ logs'[Len(logs')].context =
                    [product1 |-> req'.body.product1, product2 |-> req'.body.product2,
                     methods |-> req'.body.methods]]_vars

\* C15 witness: a request rejected because methods is empty, with the start
\* entry as the only entry of the logger and no call made.
C15_Witness ==
  /\ pc = "done"
  /\ response.status = 400
  /\ PastChecks
  /\ Has(req.body, "methods") /\ req.body.methods = << >>
  /\ Len(logs) = 1
  /\ logs[1].level = "info"
  /\ calls = << >>

\* the record holds a value in a field other than its name
HoldsData(rec) ==
  \E f \in DOMAIN rec \ {"name"} : Len(rec[f]) > 0

\* C16: mergeProductData was called on a non-empty list with a record that
\* holds data in it, and the merged record is there, under the product name
\* of the request, non-empty.
C16_AsStated ==
  \A k \in 1..2 :
    Aggregated(k) =>
      /\ results[k] # << >>
      /\ \E i \in 1..Len(results[k]) : HoldsData(results[k][i])
      /\ Data(k).name = ProductName(k)
      /\ Len(Data(k).name) > 0

\* the category of each name, by the keywords it holds in any case: phone,
\* iphone or galaxy first, then laptop, macbook or thinkpad
CategoryOf(productName) ==
  CASE productName = <<"iPhone 15 Pro">>            -> "phone"
    [] productName = <<"Samsung Galaxy S24 Ultra">> -> "phone"
    [] productName = <<"HEADPHONES Max">>           -> "phone"
    [] productName = <<"Galaxy Book Laptop">>       -> "phone"
    [] productName = <<"ThinkPad X1">>              -> "laptop"
    [] productName = <<"MacBook Air">>              -> "laptop"
    [] productName = <<"Gaming laptop">>            -> "laptop"
    [] productName = <<"Desk Lamp">>                -> "generic"

TemplateFeatures(cat) ==
  CASE cat = "phone"   -> PhoneFeatures
    [] cat = "laptop"  -> LaptopFeatures
    [] cat = "generic" -> GenericFeatures

TemplateKeys(cat) ==
  CASE cat = "phone"   -> <<"Type", "Category", "Screen Size", "Storage", "Data Source">>
    [] cat = "laptop"  -> <<"Type", "Category", "Screen Size", "Processor", "Data Source">>
    [] cat = "generic" -> <<"Product", "Category", "Data Source">>

TemplateCategory(cat) ==
  CASE cat = "phone"   -> <<"Mobile Device">>
    [] cat = "laptop"  -> <<"Computing Device">>
    [] cat = "generic" -> <<"Consumer Product">>

\* rec is the record of the Fallback Generator for a name of category cat
OfTemplate(rec, productName, cat) ==
  /\ DOMAIN rec = RecordFields \ {"images"}
  /\ rec.name = productName
  /\ rec.features = TemplateFeatures(cat)
  /\ [i \in 1..Len(rec.specifications) |-> rec.specifications[i].key] = TemplateKeys(cat)
  /\ ValueOf(rec.specifications, "Category") = TemplateCategory(cat)
  /\ cat = "phone" => ValueOf(rec.specifications, "Type") = <<"Smartphone">>
  /\ cat = "laptop" => ValueOf(rec.specifications, "Type") = <<"Laptop Computer">>

\* C17: every record the Fallback Generator made for a name is the record of
\* the one category the name's keywords give, with that category's features
\* and specification template; and when every source failed for iPhone 15
\* Pro and Samsung Galaxy S24 Ultra, both records of the response have
\* specifications.Type Smartphone and the phone features.
C17_FallbackByCategory ==
  /\ \A k \in 1..2 :
       \A i \in 1..Len(results[k]) :
         SourceTag(results[k][i]) = ""
           => OfTemplate(results[k][i], ProductName(k), CategoryOf(ProductName(k)))
  /\ (pc = "done" /\ response.status = 200
        /\ req.body.product1 = <<"iPhone 15 Pro">>
        /\ req.body.product2 = <<"Samsung Galaxy S24 Ultra">>
        /\ AllSourcesFailed(1) /\ AllSourcesFailed(2))
       => \A p \in {response.body.product1, response.body.product2} :
            /\ ValueOf(p.specifications, "Type") = <<"Smartphone">>
            /\ p.features = PhoneFeatures

\* C17 witness: the request for iPhone 15 Pro and Samsung Galaxy S24 Ultra,
\* served with every source failing, both records of the response typed
\* Smartphone.
C17_Witness ==
  /\ pc = "done"
  /\ response.status = 200
  /\ req.body.product1 = <<"iPhone 15 Pro">>
  /\ req.body.product2 = <<"Samsung Galaxy S24 Ultra">>
  /\ Len(scrapers) = 2
  /\ AllSourcesFailed(1) /\ AllSourcesFailed(2)
  /\ ValueOf(response.body.product1.specifications, "Type") = <<"Smartphone">>
  /\ ValueOf(response.body.product2.specifications, "Type") = <<"Smartphone">>

\* the fetches a served request makes: each source of the list for product1,
\* then each for product2
ExpectedFetches ==
  LET n == Len(scrapers)
  IN [i \in 1..(2 * n) |->
        [kind |-> "scrapeProduct",
         target |-> scrapers[((i - 1) % n) + 1],
         arg |-> IF i <= n THEN req.body.product1 ELSE req.body.product2]]

FetchesMade == SelectSeq(calls, IsScrapeCall)

\* C18: the fetches made are at every moment a prefix of: each source of the
\* list once for product1, then each once for product2; while a fetch is
\* awaited it is the last call made and no step but its settling makes a
\* call; whatever way it settles, the next source of the list is fetched
\* from, or the next product begun, or the comparison; and a request past
\* its fetches has made them all.
C18_EachSourceOncePerProduct ==
  /\ [](scrapers # << >> =>
          /\ Len(FetchesMade) <= 2 * Len(scrapers)
          /\ FetchesMade = SubSeq(ExpectedFetches, 1, Len(FetchesMade)))
  /\ [](pc = "scraping" =>
          /\ Len(FetchesMade) = (cur - 1) * Len(scrapers) + idx
          /\ calls[Len(calls)] = ExpectedFetches[Len(FetchesMade)])
  /\ [][pc = "scraping" =>
          /\ Len(calls') = Len(calls) + 1
          /\ IF Len(FetchesMade) < 2 * Len(scrapers)
             THEN pc' = "scraping" /\ Len(FetchesMade') = Len(FetchesMade) + 1
             ELSE pc' = "comparing" /\ FetchesMade' = FetchesMade]_vars
  /\ []((pc \in {"comparing", "documenting"} \/ (pc = "done" /\ calls # << >>))
          => FetchesMade = ExpectedFetches)

\* C18 witness: two sources, the first threw and the second returned a
\* record for product1, the first returned nothing for product2, and the
\* four fetches were made.
C18_Witness ==
  /\ pc = "done"
  /\ response.status = 200
  /\ Len(scrapers) = 2
  /\ req.body.product1 # req.body.product2
  /\ Len(results[1]) = 2
  /\ SourceTag(results[1][1]) = ""
  /\ SourceTag(results[1][2]) = scrapers[2]
  /\ Len(results[2]) = 1
  /\ SourceTag(results[2][1]) = scrapers[2]
  /\ Len(FetchesMade) = 4

\* nothing of the run is left to happen on the page: the start request has
\* settled, the interval is cleared, the timeout has fired or was never set,
\* every status request has reached its callback
RunAtRest ==
  /\ startPc \in {"polling", "failed"}
  /\ ~pollInterval
  /\ ~timer
  /\ \A i \in 1..Len(inflight) : inflight[i] = "settled"

\* C19: a run that was started leaves the running state: when nothing of the
\* run is left to happen, isRunning is false, be it by a completed poll, by
\* an error or by the timeout.
C19_AsStated == RunAtRest => ~isRunning

\* a polling callback stored the result and the final step
Completed == comparisonResult # "null" /\ currentStep = "Comparison completed!"

\* C20: once the result is stored and the step is "Comparison completed!",
\* no later step of the run changes the sessions, the step or the result.
C20_AsStated ==
  [][Completed =>
       /\ sessions' = sessions
       /\ currentStep' = currentStep
       /\ comparisonResult' = comparisonResult]_vars


\* C21: right after every sweep no stored session is older than thirty
\* minutes and every session that was stored with an age of at most thirty
\* minutes is still stored unchanged, so a session older than thirty minutes
\* is gone by the first sweep that finds it so; get returns the session just
\* set under an id, and keeps returning it over every step that does not
\* overwrite, delete, clear or sweep it.
C21_SweepAndGet ==
  /\ [][nextSweep' # nextSweep =>
          /\ \A id \in DOMAIN sessionMap' :
               now' - sessionMap'[id].startTime <= ThirtyMinutes
          /\ \A id \in DOMAIN sessionMap :
               now - sessionMap[id].startTime <= ThirtyMinutes
                 => id \in DOMAIN sessionMap' /\ sessionMap'[id] = sessionMap[id]
          /\ \A id \in DOMAIN sessionMap :
               now - sessionMap[id].startTime > ThirtyMinutes
                 => id \notin DOMAIN sessionMap']_vars
  /\ [][\A id \in SessionIds : \A session \in SessionsAt(now) :
          Set(id, session) => get(id)' = session]_vars
  /\ [][\A id \in DOMAIN sessionMap :
          get(id)' = get(id)
            \/ \E session \in SessionsAt(now) : Set(id, session)
            \/ Delete(id)
            \/ Clear
            \/ /\ nextSweep' # nextSweep
               /\ now - sessionMap[id].startTime > ThirtyMinutes]_vars
  /\ [][\A id \in SessionIds : Get(id) => lastCall'.returned = get(id)']_vars

\* C21 witness: a sweep has just removed a session and left another whose
\* age is exactly thirty minutes
C21_Witness ==
  /\ lastCall.op = "sweep"
  /\ lastCall.removed # {}
  /\ \E id \in DOMAIN sessionMap : now - sessionMap[id].startTime = ThirtyMinutes

====
